---- MODULE Spec2Model ----
(***************************************************************************)
(* Model of the Okta security monitoring dashboard: the trend aggregation  *)
(* engine of src/src/trends_analyzer.py (class TrendsAnalyzer), the        *)
(* analyses of src/src/log_analyzer.py (class LogAnalyzer), the connector  *)
(* of src/src/okta_connector.py (class OktaConnector), the collection run  *)
(* of src/src/main.py, and the custom-trends and fetch-fresh-data          *)
(* endpoints of src/dashboard.py.                                          *)
(*                                                                         *)
(* Time is counted in whole hours since an epoch that is a Monday 00:00,   *)
(* so a datetime is an integer, timedelta(hours=h) is h and                *)
(* timedelta(days=d) is HoursPerDay * d.  Decimal (float) quantities are   *)
(* kept in thousandths: 87.456 is 87456, and round(x, 2) yields a multiple *)
(* of 10.  Integer quantities (event counts) are plain integers.           *)
(***************************************************************************)
EXTENDS Integers, Sequences, FiniteSets, TLC

VARIABLES
    clock,           \* the wall clock: what datetime.now() returns next
    dir,             \* the data directory: the files matching analysis_results_*.json
    analysis_files,  \* self.analysis_files: the catalog, a sequence of <<timestamp, path>>
    result,          \* what the last call gave its caller: a returned value or an exception
    last,            \* the locals of the last call (clock readings, selections, load outcomes)
    logs,            \* the list of log events handed to the LogAnalyzer
    thresholds,      \* the thresholds log_analyzer imports from config
    network,         \* what requests.get does on the next request of each kind
    src_dir          \* the files of the directory of main.py

vars == <<clock, dir, analysis_files, result, last, logs, thresholds, network, src_dir>>

----------------------------------------------------------------------------
(* Bounds of the model *)

MaxFiles == 3        \* at most this many snapshot files in the directory
MaxAdvance == 1      \* the clock advances by at most this many hours in a behaviour
MaxLogs == 5         \* at most this many events in a list of logs
MaxFailureCount == 26 \* _calculate_risk_level is called with counts up to this

(* Program constants *)

HoursPerDay == 24    \* timedelta(days=1)
WeekDays == 7        \* timedelta(days=7)
TwoWeeksDays == 14   \* timedelta(days=14)
Hours7Day == 168     \* get_7day_trends
Hours30Day == 720    \* get_30day_trends
GrowthFromZero == 100 \* calc_change: pct = 100
DefaultHours == 24   \* get_custom_trends: request.args.get('hours', 24, type=int)
MinCustomHours == 1  \* get_custom_trends: hours < 1
MaxCustomHours == 8760 \* get_custom_trends: hours > 8760
HttpOk == 200
HttpBadRequest == 400
HttpServerError == 500
HttpUnauthorized == 401
HttpGatewayTimeout == 504
FailedLoginThreshold == 5 \* config.FAILED_LOGIN_THRESHOLD
MfaFailureThreshold == 3  \* config.MFA_FAILURE_THRESHOLD

----------------------------------------------------------------------------
(* Generic helpers: Python built-ins used by the code *)

RECURSIVE SumSeq(_)
SumSeq(s) == IF s = <<>> THEN 0 ELSE Head(s) + SumSeq(Tail(s))

MinSeq(s) == CHOOSE x \in {s[i] : i \in DOMAIN s} : \A j \in DOMAIN s : x <= s[j]

MaxSeq(s) == CHOOSE x \in {s[i] : i \in DOMAIN s} : \A j \in DOMAIN s : x >= s[j]

\* n / d rounded to the nearest integer, ties to even (d > 0).
RoundHalfEven(n, d) ==
    LET q == n \div d
        r == n % d
    IN  IF 2 * r < d THEN q
        ELSE IF 2 * r > d THEN q + 1
        ELSE IF q % 2 = 0 THEN q ELSE q + 1

\* round(n / d, 2), in thousandths.
Round2(n, d) == 10 * RoundHalfEven(100 * n, d)

\* dict.get(key, default) on a dict modelled as a function over its keys.
Get(d, key, default) == IF key \in DOMAIN d THEN d[key] ELSE default

----------------------------------------------------------------------------
(* Files *)

\* A file name analysis_results_<rest>.json.  parses: strptime accepts <rest>;
\* ts: the datetime it yields; alt: the spelling (strptime accepts unpadded
\* fields, so two names can carry the same timestamp).
FileName(parses, ts, alt) == [parses |-> parses, ts |-> ts, alt |-> alt]

StampName(ts) == FileName(TRUE, ts, 0)

\* A "summary" value of a JSON object: a dict of fields, absent, or a value
\* that is not a dict (null, a list, a string).
SummaryDict(fields) == [t |-> "dict", v |-> fields]
SummaryAbsent == [t |-> "absent", v |-> <<>>]
SummaryOther == [t |-> "other", v |-> <<>>]

Fields(e, f, s, u, r) ==
    [total_events |-> e, failed_logins |-> f, successful_logins |-> s,
     unique_users |-> u, login_success_rate |-> r]

\* File contents.
JsonObject(summary) == [kind |-> "object", summary |-> summary]
JsonArray == [kind |-> "array", summary |-> SummaryAbsent]         \* valid JSON, not an object
Malformed == [kind |-> "malformed", summary |-> SummaryAbsent]     \* text that is not JSON
Undecodable == [kind |-> "undecodable", summary |-> SummaryAbsent] \* bytes that are not text
Unreadable == [kind |-> "unreadable", summary |-> SummaryAbsent]   \* open() is refused

File(name, content) == [name |-> name, content |-> content]

Names(d) == {f.name : f \in d}

ContentOf(d, name) == (CHOOSE f \in d : f.name = name).content

----------------------------------------------------------------------------
(* Snapshot Store: _get_analysis_files and _load_analysis *)

\* All orders in which the directory scan (glob) can return the files of d.
RECURSIVE ScanOrders(_)
ScanOrders(d) ==
    IF d = {} THEN {<<>>}
    ELSE UNION {{<<f>> \o o : o \in ScanOrders(d \ {f})} : f \in d}

\* A variant that puts x in front of the entries with its timestamp.
InsertBeforeEqual(sorted, x) ==
    LET n == Cardinality({i \in DOMAIN sorted : sorted[i][1] < x[1]})
    IN  SubSeq(sorted, 1, n) \o <<x>> \o SubSeq(sorted, n + 1, Len(sorted))

\* files.sort(key=lambda x: x[0]) is stable: x goes behind every entry whose
\* timestamp is not larger.
InsertByTimestamp(sorted, x) ==
    LET n == Cardinality({i \in DOMAIN sorted : sorted[i][1] <= x[1]})
    IN  SubSeq(sorted, 1, n) \o <<x>> \o SubSeq(sorted, n + 1, Len(sorted))

RECURSIVE SortByTimestamp(_)
SortByTimestamp(files) ==
    IF files = <<>> THEN <<>>
    ELSE InsertByTimestamp(SortByTimestamp(SubSeq(files, 1, Len(files) - 1)),
                           files[Len(files)])

\* A variant that ends the scan at the first name strptime rejects.
RECURSIVE ParseFilesUntilError(_)
ParseFilesUntilError(scan) ==
    IF scan = <<>> THEN <<>>
    ELSE LET f == Head(scan)
         IN  IF f.name.parses
             THEN <<(<<f.name.ts, f.name>>)>> \o ParseFilesUntilError(Tail(scan))
             ELSE <<>>

\* The loop of _get_analysis_files: a name strptime rejects raises ValueError,
\* which is caught; the file is left out and the scan goes on.
RECURSIVE ParseFiles(_)
ParseFiles(scan) ==
    IF scan = <<>> THEN <<>>
    ELSE LET f == Head(scan)
         IN  IF f.name.parses
             THEN <<(<<f.name.ts, f.name>>)>> \o ParseFiles(Tail(scan))
             ELSE ParseFiles(Tail(scan))

GetAnalysisFiles(scan) == SortByTimestamp(ParseFiles(scan))

\* What of the scan order can show in the catalog: the names, in scan order,
\* of the files whose timestamp another scanned file carries too.
Ties(scan) ==
    LET parsed == ParseFiles(scan)
    IN  SelectSeq([i \in DOMAIN parsed |-> parsed[i][2]],
                  LAMBDA name : \E j \in DOMAIN parsed :
                                   parsed[j][1] = name.ts /\ parsed[j][2] # name)

\* The catalogs a scan of d can give, each with the ties of its scan.
Scans(d) == {[files |-> GetAnalysisFiles(scan), ties |-> Ties(scan)] : scan \in ScanOrders(d)}

\* Outcomes of a load.
LoadNone == [tag |-> "none", exc |-> "", value |-> Malformed]
LoadRaise(e) == [tag |-> "raise", exc |-> e, value |-> Malformed]
LoadValue(c) == [tag |-> "value", exc |-> "", value |-> c]

\* _load_analysis(file_path) against directory d.  open() of a missing or
\* refused file raises an OSError (IOError) and json.load of text that is not
\* JSON raises JSONDecodeError: both are caught and give None.  Bytes that do
\* not decode as text raise UnicodeDecodeError out of f.read(), which is
\* neither, so it leaves the function.
LoadAnalysis(d, path) ==
    IF path \notin Names(d) THEN LoadNone
    ELSE LET c == ContentOf(d, path)
         IN  CASE c.kind = "unreadable" -> LoadNone
               [] c.kind = "malformed" -> LoadNone
               [] c.kind = "undecodable" -> LoadRaise("UnicodeDecodeError")
               [] OTHER -> LoadValue(c)

\* analysis.get("summary", {}) followed by the first summary.get(...): a loaded
\* value that is not a dict, or a "summary" that is not a dict, has no .get and
\* raises AttributeError.  Gives the summary's fields otherwise.
SummaryRaises(c) == c.kind # "object" \/ c.summary.t = "other"

SummaryFields(c) == IF c.summary.t = "dict" THEN c.summary.v ELSE <<>>

----------------------------------------------------------------------------
(* Trend Window Engine: _is_within_hours and get_trend_data *)

\* A variant with an exclusive lower bound.
IsWithinHoursExclusive(timestamp, hours, now) ==
    LET cutoff == now - hours
    IN  timestamp > cutoff

\* _is_within_hours(timestamp, hours) with datetime.now() returning now.
IsWithinHours(timestamp, hours, now) ==
    LET cutoff == now - hours
    IN  timestamp >= cutoff

\* The list comprehension building relevant_files: entry i is tested with the
\* clock reading reads[i].
RelevantIndices(files, hours, reads) ==
    SelectSeq([i \in 1..Len(files) |-> i],
              LAMBDA i : IsWithinHours(files[i][1], hours, reads[i]))

TrendType(hours) == <<"last_", hours, "h">>

\* The result returned when relevant_files is empty.
EmptyTrend(hours) ==
    [trend_type |-> TrendType(hours),
     data_points |-> <<>>,
     summary |-> [total_events |-> <<>>, failed_logins |-> <<>>,
                  successful_logins |-> <<>>, unique_users |-> <<>>,
                  login_success_rate |-> <<>>]]

EmptyLists ==
    [raised |-> "", loads |-> <<>>, timestamps |-> <<>>, total_events |-> <<>>,
     failed_logins |-> <<>>, successful_logins |-> <<>>, unique_users |-> <<>>,
     login_success_rates |-> <<>>]

\* A variant that keeps the timestamp of an entry whose file gave None.
ExtractOneKeepingTimestamp(d, e, acc) ==
    LET analysis == LoadAnalysis(d, e[2])
        loads == Append(acc.loads, <<e[2], analysis>>)
    IN  CASE analysis.tag = "raise" ->
                 [acc EXCEPT !.raised = analysis.exc, !.loads = loads]
          [] analysis.tag = "none" ->
                 [acc EXCEPT !.loads = loads, !.timestamps = Append(@, e[1])]
          [] OTHER ->
             IF SummaryRaises(analysis.value)
             THEN [acc EXCEPT !.raised = "AttributeError", !.loads = loads]
             ELSE LET summary == SummaryFields(analysis.value)
                  IN  [raised |-> "",
                       loads |-> loads,
                       timestamps |-> Append(acc.timestamps, e[1]),
                       total_events |->
                           Append(acc.total_events, Get(summary, "total_events", 0)),
                       failed_logins |->
                           Append(acc.failed_logins, Get(summary, "failed_logins", 0)),
                       successful_logins |->
                           Append(acc.successful_logins,
                                  Get(summary, "successful_logins", 0)),
                       unique_users |->
                           Append(acc.unique_users, Get(summary, "unique_users", 0)),
                       login_success_rates |->
                           Append(acc.login_success_rates,
                                  Round2(Get(summary, "login_success_rate", 0), 1000))]

\* One iteration of the extraction loop for catalog entry e.  loads keeps the
\* outcome of every _load_analysis call made, for inspection.
ExtractOne(d, e, acc) ==
    LET analysis == LoadAnalysis(d, e[2])
        loads == Append(acc.loads, <<e[2], analysis>>)
    IN  CASE analysis.tag = "raise" ->
                 [acc EXCEPT !.raised = analysis.exc, !.loads = loads]
          [] analysis.tag = "none" -> [acc EXCEPT !.loads = loads]
          [] OTHER ->
             IF SummaryRaises(analysis.value)
             THEN [acc EXCEPT !.raised = "AttributeError", !.loads = loads]
             ELSE LET summary == SummaryFields(analysis.value)
                  IN  [raised |-> "",
                       loads |-> loads,
                       timestamps |-> Append(acc.timestamps, e[1]),
                       total_events |->
                           Append(acc.total_events, Get(summary, "total_events", 0)),
                       failed_logins |->
                           Append(acc.failed_logins, Get(summary, "failed_logins", 0)),
                       successful_logins |->
                           Append(acc.successful_logins,
                                  Get(summary, "successful_logins", 0)),
                       unique_users |->
                           Append(acc.unique_users, Get(summary, "unique_users", 0)),
                       login_success_rates |->
                           Append(acc.login_success_rates,
                                  Round2(Get(summary, "login_success_rate", 0), 1000))]

\* The extraction loop over relevant_files (indices into files), from entry k on.
RECURSIVE ExtractMetrics(_, _, _, _, _)
ExtractMetrics(d, files, relevant, k, acc) ==
    IF k > Len(relevant) \/ acc.raised # "" THEN acc
    ELSE ExtractMetrics(d, files, relevant, k + 1,
                        ExtractOne(d, files[relevant[k]], acc))

\* A variant whose averages are truncated to whole numbers.
TrendSummaryTruncated(total_events, failed_logins, timestamps) ==
    [min_events |-> IF total_events # <<>> THEN MinSeq(total_events) ELSE 0,
     max_events |-> IF total_events # <<>> THEN MaxSeq(total_events) ELSE 0,
     avg_events |-> IF total_events # <<>>
                    THEN 1000 * (SumSeq(total_events) \div Len(total_events)) ELSE 0,
     min_failures |-> IF failed_logins # <<>> THEN MinSeq(failed_logins) ELSE 0,
     max_failures |-> IF failed_logins # <<>> THEN MaxSeq(failed_logins) ELSE 0,
     avg_failures |-> IF failed_logins # <<>>
                      THEN 1000 * (SumSeq(failed_logins) \div Len(failed_logins))
                      ELSE 0,
     data_points_count |-> Len(timestamps)]

TrendSummary(total_events, failed_logins, timestamps) ==
    [min_events |-> IF total_events # <<>> THEN MinSeq(total_events) ELSE 0,
     max_events |-> IF total_events # <<>> THEN MaxSeq(total_events) ELSE 0,
     avg_events |-> IF total_events # <<>>
                    THEN Round2(SumSeq(total_events), Len(total_events)) ELSE 0,
     min_failures |-> IF failed_logins # <<>> THEN MinSeq(failed_logins) ELSE 0,
     max_failures |-> IF failed_logins # <<>> THEN MaxSeq(failed_logins) ELSE 0,
     avg_failures |-> IF failed_logins # <<>>
                      THEN Round2(SumSeq(failed_logins), Len(failed_logins)) ELSE 0,
     data_points_count |-> Len(timestamps)]

Returned(v) == [status |-> "returned", value |-> v, exc |-> ""]
Raised(e) == [status |-> "raised", value |-> <<>>, exc |-> e]
NoCall == [status |-> "none", value |-> <<>>, exc |-> ""]

\* get_trend_data(hours) on catalog files and directory d, the clock reading
\* reads[i] when entry i is tested: its result, with its locals relevant_files
\* (as catalog positions) and the loads it made.
TrendData(d, files, hours, reads) ==
    LET relevant == RelevantIndices(files, hours, reads)
        m == ExtractMetrics(d, files, relevant, 1, EmptyLists)
    IN  [relevant |-> relevant,
         loads |-> m.loads,
         result |->
             IF relevant = <<>> THEN Returned(EmptyTrend(hours))
             ELSE IF m.raised # "" THEN Raised(m.raised)
             ELSE Returned(
                    [trend_type |-> TrendType(hours),
                     timestamps |-> m.timestamps,
                     data_points |->
                         [total_events |-> m.total_events,
                          failed_logins |-> m.failed_logins,
                          successful_logins |-> m.successful_logins,
                          unique_users |-> m.unique_users,
                          login_success_rate |-> m.login_success_rates],
                     summary |-> TrendSummary(m.total_events, m.failed_logins,
                                              m.timestamps)])]

----------------------------------------------------------------------------
(* Comparative Engine: get_week_over_week *)

\* now.weekday(): Monday is 0.
Weekday(now) == (now \div HoursPerDay) % WeekDays

CurrentWeekStart(now) == now - HoursPerDay * Weekday(now)

LastWeekStart(now) == CurrentWeekStart(now) - HoursPerDay * WeekDays

TwoWeeksAgo(now) == now - HoursPerDay * TwoWeeksDays

CurrentWeekFiles(files, now) ==
    SelectSeq(files, LAMBDA e : LastWeekStart(now) <= e[1] /\ e[1] <= now)

\* A variant whose previous-week bucket is closed at the boundary.
LastWeekFilesClosed(files, now) ==
    SelectSeq(files, LAMBDA e : TwoWeeksAgo(now) <= e[1] /\ e[1] <= LastWeekStart(now))

LastWeekFiles(files, now) ==
    SelectSeq(files, LAMBDA e : TwoWeeksAgo(now) <= e[1] /\ e[1] < LastWeekStart(now))

EmptyAggregate ==
    [raised |-> "", loads |-> <<>>, all_events |-> <<>>, all_failures |-> <<>>,
     all_successes |-> <<>>, all_rates |-> <<>>]

\* One iteration of the loop of aggregate_metrics for entry e.
AggregateOne(d, e, acc) ==
    LET analysis == LoadAnalysis(d, e[2])
        loads == Append(acc.loads, <<e[2], analysis>>)
    IN  CASE analysis.tag = "raise" ->
                 [acc EXCEPT !.raised = analysis.exc, !.loads = loads]
          [] analysis.tag = "none" -> [acc EXCEPT !.loads = loads]
          [] OTHER ->
             IF SummaryRaises(analysis.value)
             THEN [acc EXCEPT !.raised = "AttributeError", !.loads = loads]
             ELSE LET summary == SummaryFields(analysis.value)
                  IN  [raised |-> "",
                       loads |-> loads,
                       all_events |->
                           Append(acc.all_events, Get(summary, "total_events", 0)),
                       all_failures |->
                           Append(acc.all_failures, Get(summary, "failed_logins", 0)),
                       all_successes |->
                           Append(acc.all_successes,
                                  Get(summary, "successful_logins", 0)),
                       all_rates |->
                           Append(acc.all_rates,
                                  Get(summary, "login_success_rate", 0))]

RECURSIVE AggregateLoop(_, _, _, _)
AggregateLoop(d, files, k, acc) ==
    IF k > Len(files) \/ acc.raised # "" THEN acc
    ELSE AggregateLoop(d, files, k + 1, AggregateOne(d, files[k], acc))

\* A variant that divides by len(all_rates) also when nothing was loaded.
AggregateMetricsUnguarded(d, files) ==
    IF files = <<>>
    THEN [raised |-> "", loads |-> <<>>, total_events |-> 0, failed_logins |-> 0,
          successful_logins |-> 0, avg_success_rate |-> 0]
    ELSE LET a == AggregateLoop(d, files, 1, EmptyAggregate)
         IN  [raised |-> IF a.raised = "" /\ a.all_rates = <<>>
                         THEN "ZeroDivisionError" ELSE a.raised,
              loads |-> a.loads,
              total_events |-> SumSeq(a.all_events),
              failed_logins |-> SumSeq(a.all_failures),
              successful_logins |-> SumSeq(a.all_successes),
              avg_success_rate |->
                  IF a.all_rates # <<>>
                  THEN Round2(SumSeq(a.all_rates), 1000 * Len(a.all_rates))
                  ELSE 0]

\* A variant that recomputes the success rate from the summed totals.
AggregateMetricsRecomputed(d, files) ==
    IF files = <<>>
    THEN [raised |-> "", loads |-> <<>>, total_events |-> 0, failed_logins |-> 0,
          successful_logins |-> 0, avg_success_rate |-> 0]
    ELSE LET a == AggregateLoop(d, files, 1, EmptyAggregate)
         IN  [raised |-> a.raised,
              loads |-> a.loads,
              total_events |-> SumSeq(a.all_events),
              failed_logins |-> SumSeq(a.all_failures),
              successful_logins |-> SumSeq(a.all_successes),
              avg_success_rate |->
                  IF SumSeq(a.all_events) > 0
                  THEN Round2(100 * SumSeq(a.all_successes), SumSeq(a.all_events))
                  ELSE 0]

\* aggregate_metrics(files): raised is the exception that left it, if any.
AggregateMetrics(d, files) ==
    IF files = <<>>
    THEN [raised |-> "", loads |-> <<>>, total_events |-> 0, failed_logins |-> 0,
          successful_logins |-> 0, avg_success_rate |-> 0]
    ELSE LET a == AggregateLoop(d, files, 1, EmptyAggregate)
         IN  [raised |-> a.raised,
              loads |-> a.loads,
              total_events |-> SumSeq(a.all_events),
              failed_logins |-> SumSeq(a.all_failures),
              successful_logins |-> SumSeq(a.all_successes),
              avg_success_rate |->
                  IF a.all_rates # <<>>
                  THEN Round2(SumSeq(a.all_rates), 1000 * Len(a.all_rates))
                  ELSE 0]

\* A variant that cuts the percentage off after two decimals instead of rounding.
ChangePercentCut(current, previous) ==
    IF previous = 0
    THEN IF current = 0 THEN 0 ELSE 1000 * GrowthFromZero
    ELSE IF previous > 0
         THEN 10 * ((100 * 100 * (current - previous)) \div previous)
         ELSE 10 * ((100 * 100 * (previous - current)) \div (0 - previous))

\* A variant that reports growth from zero by its magnitude.
ChangePercentMagnitude(current, previous) ==
    IF previous = 0
    THEN 1000 * current
    ELSE IF previous > 0
         THEN Round2(100 * (current - previous), previous)
         ELSE Round2(100 * (previous - current), 0 - previous)

\* The percentage of calc_change, in thousandths.
ChangePercent(current, previous) ==
    IF previous = 0
    THEN IF current = 0 THEN 0 ELSE 1000 * GrowthFromZero
    ELSE IF previous > 0
         THEN Round2(100 * (current - previous), previous)
         ELSE Round2(100 * (previous - current), 0 - previous)

\* A variant that calls a change of less than one per cent stable.
DirectionAboveOne(pct) ==
    IF pct >= 1000 THEN "up" ELSE IF pct <= 0 - 1000 THEN "down" ELSE "stable"

\* direction = "up" if pct > 0 else ("down" if pct < 0 else "stable")
Direction(pct) == IF pct > 0 THEN "up" ELSE IF pct < 0 THEN "down" ELSE "stable"

\* calc_change(current, previous).
CalcChange(current, previous) ==
    LET pct == ChangePercent(current, previous)
    IN  [change_percent |-> pct, direction |-> Direction(pct)]

Metrics(m) ==
    [total_events |-> m.total_events, failed_logins |-> m.failed_logins,
     successful_logins |-> m.successful_logins,
     avg_success_rate |-> m.avg_success_rate]

\* get_week_over_week() with datetime.now() returning now: its result, with
\* its locals and the loads it made.
WeekOverWeek(d, files, now) ==
    LET current_week_files == CurrentWeekFiles(files, now)
        last_week_files == LastWeekFiles(files, now)
        current_metrics == AggregateMetrics(d, current_week_files)
        last_metrics == AggregateMetrics(d, last_week_files)
    IN  [current_week_start |-> CurrentWeekStart(now),
         last_week_start |-> LastWeekStart(now),
         two_weeks_ago |-> TwoWeeksAgo(now),
         current_week_files |-> current_week_files,
         last_week_files |-> last_week_files,
         loads |-> IF current_metrics.raised # "" THEN current_metrics.loads
                   ELSE current_metrics.loads \o last_metrics.loads,
         result |->
             IF current_metrics.raised # "" THEN Raised(current_metrics.raised)
             ELSE IF last_metrics.raised # "" THEN Raised(last_metrics.raised)
             ELSE Returned(
                    [current_week |-> Metrics(current_metrics),
                     last_week |-> Metrics(last_metrics),
                     comparison |->
                         [events_change |->
                              CalcChange(current_metrics.total_events,
                                         last_metrics.total_events),
                          failures_change |->
                              CalcChange(current_metrics.failed_logins,
                                         last_metrics.failed_logins),
                          success_rate_change |->
                              CalcChange(current_metrics.avg_success_rate,
                                         last_metrics.avg_success_rate)]])]

----------------------------------------------------------------------------
(* Log Analyzer: src/src/log_analyzer.py *)

\* config is imported by log_analyzer only: the trends analyzer and the
\* dashboard's trend endpoints run without it.
NotImported == <<>>

\* The values config can give the thresholds: FAILED_LOGIN_THRESHOLD and
\* MFA_FAILURE_THRESHOLD are 5 and 3; of the RISK_LEVEL_* it is known that 2
\* failures are LOW, 5 MEDIUM, 15 HIGH and 25 CRITICAL.
Configs ==
    {[failed_login_threshold |-> FailedLoginThreshold,
      mfa_failure_threshold |-> MfaFailureThreshold,
      risk_level_medium |-> m, risk_level_high |-> h, risk_level_critical |-> c] :
        m \in {3, 5}, h \in {6, 15}, c \in {16, 25}}

\* A string is a sequence of words, each spelled in lower case or with
\* capitals; str.lower() takes the capitals away, and a lower-case word is in
\* a string when it is one of its words as spelled.
Word(text) == [text |-> text, cap |-> FALSE]
Capitalised(text) == [text |-> text, cap |-> TRUE]
Lower(s) == [i \in DOMAIN s |-> Word(s[i].text)]
Contains(s, text) == \E i \in DOMAIN s : s[i] = Word(text)

\* The fields analyze_failed_logins reads from an event, with their defaults.
EventTypeOf(log) == Get(log, "eventType", <<>>)
OutcomeOf(log) == Get(Get(log, "outcome", <<>>), "result", "")
UserOf(log) == Get(Get(log, "actor", <<>>), "alternateId", "Unknown")
IpOf(log) == Get(Get(log, "client", <<>>), "ipAddress", "Unknown")

\* 'authentication' in event_type.lower() and outcome == 'FAILURE'
IsFailedAuthentication(log) ==
    Contains(Lower(EventTypeOf(log)), "authentication") /\ OutcomeOf(log) = "FAILURE"

FailureInfo(log) ==
    [time |-> Get(log, "published", ""),
     ip |-> IpOf(log),
     reason |-> Get(Get(log, "outcome", <<>>), "reason", "Unknown")]

\* A variant that asks for more failures than each threshold.
CalculateRiskLevelAbove(th, failure_count) ==
    IF failure_count > th.risk_level_critical THEN "CRITICAL"
    ELSE IF failure_count > th.risk_level_high THEN "HIGH"
    ELSE IF failure_count > th.risk_level_medium THEN "MEDIUM"
    ELSE "LOW"

\* _calculate_risk_level(failure_count)
CalculateRiskLevel(th, failure_count) ==
    IF failure_count >= th.risk_level_critical THEN "CRITICAL"
    ELSE IF failure_count >= th.risk_level_high THEN "HIGH"
    ELSE IF failure_count >= th.risk_level_medium THEN "MEDIUM"
    ELSE "LOW"

\* A variant that asks for more failures than the threshold.
IsSuspiciousAbove(th, failures) == Len(failures) > th.failed_login_threshold

\* len(failures) >= self.failed_login_threshold
IsSuspicious(th, failures) == Len(failures) >= th.failed_login_threshold

\* user_failures / ip_failures after the loop over the events: for every key
\* met, the failure infos of its failed authentications, in the order of the
\* events.  by is "user" or "ip".
KeyOf(by, log) == IF by = "user" THEN UserOf(log) ELSE IpOf(log)

Failures(event_list, by) ==
    LET failed == SelectSeq(event_list, IsFailedAuthentication)
        Info(k) == LET of_k == SelectSeq(failed, LAMBDA log : KeyOf(by, log) = k)
                   IN  [i \in DOMAIN of_k |-> FailureInfo(of_k[i])]
    IN  [k \in {KeyOf(by, failed[i]) : i \in DOMAIN failed} |-> Info(k)]

\* The suspicious entries of user_failures / ip_failures.
SuspiciousOf(th, failures) ==
    [k \in {x \in DOMAIN failures : IsSuspicious(th, failures[x])} |->
        [failure_count |-> Len(failures[k]),
         failures |-> failures[k],
         risk_level |-> CalculateRiskLevel(th, Len(failures[k]))]]

\* analyze_failed_logins(logs)
FailedLogins(th, event_list) ==
    [suspicious_users |-> SuspiciousOf(th, Failures(event_list, "user")),
     suspicious_ips |-> SuspiciousOf(th, Failures(event_list, "ip"))]

\* Python's None, which no string of an event equals, and the truth of a
\* value in a condition: None and the empty string are false.
None == "<None>"
Truthy(v) == v \notin {None, ""}

\* 'authentication' in event_type.lower()
IsAuthentication(log) == Contains(Lower(EventTypeOf(log)), "authentication")

\* A variant that adds the user and the address of an authentication event
\* whatever they are.
SummaryStepAddingAll(summary, log) ==
    IF ~IsAuthentication(log) THEN summary
    ELSE LET outcome == OutcomeOf(log)
             user == Get(Get(log, "actor", <<>>), "alternateId", None)
             ip == Get(Get(log, "client", <<>>), "ipAddress", None)
         IN  [summary EXCEPT
                 !.total_authentications = @ + 1,
                 !.unique_users = @ \cup {user},
                 !.unique_ips = @ \cup {ip},
                 !.successful_logins = IF outcome = "SUCCESS" THEN @ + 1 ELSE @,
                 !.failed_logins = IF outcome = "FAILURE" THEN @ + 1 ELSE @]

\* One turn of the loop of generate_summary.
SummaryStep(summary, log) ==
    IF ~IsAuthentication(log) THEN summary
    ELSE LET outcome == OutcomeOf(log)
             user == Get(Get(log, "actor", <<>>), "alternateId", None)
             ip == Get(Get(log, "client", <<>>), "ipAddress", None)
         IN  [summary EXCEPT
                 !.total_authentications = @ + 1,
                 !.unique_users = IF Truthy(user) THEN @ \cup {user} ELSE @,
                 !.unique_ips = IF Truthy(ip) THEN @ \cup {ip} ELSE @,
                 !.successful_logins = IF outcome = "SUCCESS" THEN @ + 1 ELSE @,
                 !.failed_logins = IF outcome = "FAILURE" THEN @ + 1 ELSE @]

RECURSIVE SummaryLoop(_, _)
SummaryLoop(summary, event_list) ==
    IF event_list = <<>> THEN summary
    ELSE SummaryLoop(SummaryStep(summary, Head(event_list)), Tail(event_list))

\* round(successful / total * 100, 2), or 0 when total is 0; in thousandths.
SuccessRate(successful, total) ==
    IF total > 0 THEN Round2(100 * successful, total) ELSE 0

\* generate_summary(logs)
SecuritySummary(event_list) ==
    LET summary == SummaryLoop([total_events |-> Len(event_list),
                                total_authentications |-> 0,
                                successful_logins |-> 0,
                                failed_logins |-> 0,
                                unique_users |-> {},
                                unique_ips |-> {}], event_list)
    IN  [total_events |-> summary.total_events,
         total_authentications |-> summary.total_authentications,
         successful_logins |-> summary.successful_logins,
         failed_logins |-> summary.failed_logins,
         unique_users |-> Cardinality(summary.unique_users),
         unique_ips |-> Cardinality(summary.unique_ips),
         login_success_rate |-> SuccessRate(summary.successful_logins,
                                            summary.total_authentications)]

\* users_with_failures[user] += 1 on a defaultdict(int)
Incremented(counts, key) ==
    [k \in DOMAIN counts \cup {key} |->
        IF k = key THEN Get(counts, key, 0) + 1 ELSE counts[k]]

\* A variant that counts a denied challenge for no user.
MfaStepDeniedForNoUser(mfa_stats, log) ==
    IF ~Contains(Lower(EventTypeOf(log)), "mfa") THEN mfa_stats
    ELSE LET outcome == OutcomeOf(log)
             user == UserOf(log)
             counted == [mfa_stats EXCEPT !.total_challenges = @ + 1]
         IN  IF outcome = "SUCCESS"
                 THEN [counted EXCEPT !.successful = @ + 1]
             ELSE IF outcome = "FAILURE"
                 THEN [counted EXCEPT !.failed = @ + 1,
                                      !.users_with_failures = Incremented(@, user)]
             ELSE IF Contains(Lower(EventTypeOf(log)), "deny")
                 THEN [counted EXCEPT !.denied = @ + 1]
             ELSE counted

\* One turn of the loop of analyze_mfa_events.
MfaStep(mfa_stats, log) ==
    IF ~Contains(Lower(EventTypeOf(log)), "mfa") THEN mfa_stats
    ELSE LET outcome == OutcomeOf(log)
             user == UserOf(log)
             counted == [mfa_stats EXCEPT !.total_challenges = @ + 1]
         IN  IF outcome = "SUCCESS"
                 THEN [counted EXCEPT !.successful = @ + 1]
             ELSE IF outcome = "FAILURE"
                 THEN [counted EXCEPT !.failed = @ + 1,
                                      !.users_with_failures = Incremented(@, user)]
             ELSE IF Contains(Lower(EventTypeOf(log)), "deny")
                 THEN [counted EXCEPT !.denied = @ + 1,
                                      !.users_with_failures = Incremented(@, user)]
             ELSE counted

RECURSIVE MfaLoop(_, _)
MfaLoop(mfa_stats, event_list) ==
    IF event_list = <<>> THEN mfa_stats
    ELSE MfaLoop(MfaStep(mfa_stats, Head(event_list)), Tail(event_list))

\* analyze_mfa_events(logs)
MfaStats(th, event_list) ==
    LET mfa_stats == MfaLoop([total_challenges |-> 0, successful |-> 0,
                              failed |-> 0, denied |-> 0,
                              users_with_failures |-> <<>>], event_list)
        failures == mfa_stats.users_with_failures
    IN  [total_challenges |-> mfa_stats.total_challenges,
         successful |-> mfa_stats.successful,
         failed |-> mfa_stats.failed,
         denied |-> mfa_stats.denied,
         users_with_failures |-> failures,
         success_rate |-> SuccessRate(mfa_stats.successful, mfa_stats.total_challenges),
         suspicious_users |->
             [user \in {u \in DOMAIN failures :
                            failures[u] >= th.mfa_failure_threshold} |->
                 failures[user]]]

----------------------------------------------------------------------------
(* Okta connector: src/src/okta_connector.py *)

\* config.AUTH_EVENT_KEYWORDS, as the test of the filter spells them.
AuthEventKeywords == {"authentication", "login", "session", "mfa", "verify"}

\* What requests.get(...) does: it raises Timeout or ConnectionError, or it
\* returns a response with a status code and a body.  The body is a JSON
\* array of events, a JSON object, the JSON null, or no JSON at all.
BodyArray(items) == [json |-> "array", items |-> items]
BodyObject == [json |-> "object"]
BodyNull == [json |-> "null"]
BodyNotJson == [json |-> "none"]
Answer(status_code, body) == [kind |-> "response", status_code |-> status_code, body |-> body]
Failure(exception) == [kind |-> exception]

\* The network answers the request of test_connection (limit=1) and the
\* request of get_logs (since=...), each in its own way.
Network(probe, query) == [probe |-> probe, logs |-> query]
Offline == Network(Failure("ConnectionError"), Failure("ConnectionError"))

\* The classes an exception is an instance of.
ClassesOf(exception) ==
    {exception} \cup
        CASE exception \in {"Timeout", "ConnectionError"} -> {"RequestException", "Exception"}
          [] exception = "JSONDecodeError" -> {"ValueError", "Exception"}
          [] exception = "KeyboardInterrupt" -> {"BaseException"}
          [] OTHER -> {"Exception"}

\* try: body, except <handlers>: return value
Try(outcome, handlers, value) ==
    IF outcome.status = "raised" /\ ClassesOf(outcome.exc) \cap handlers # {}
        THEN Returned(value)
        ELSE outcome

\* response.json(), then len(logs)
DecodedLogs(body) ==
    CASE body.json = "array" -> Returned(body.items)
      [] body.json = "object" -> Returned([errorCode |-> "E0000011"])
      [] body.json = "null" -> Raised("TypeError")
      [] OTHER -> Raised("JSONDecodeError")

\* The except clauses of test_connection.
TestConnectionHandlers == {"Timeout", "RequestException", "Exception"}

\* test_connection() when requests.get does x
TestConnectionOn(x) ==
    Try(IF x.kind # "response" THEN Raised(x.kind)
        ELSE Returned(x.status_code = HttpOk),
        TestConnectionHandlers, FALSE)

\* A variant without the last except clause.
GetLogsHandlersNamed == {"Timeout", "RequestException", "ValueError"}

\* The except clauses of get_logs.
GetLogsHandlers == {"Timeout", "RequestException", "ValueError", "Exception"}

\* get_logs(hours_ago, limit) when requests.get does x
GetLogsOn(x) ==
    Try(IF x.kind # "response" THEN Raised(x.kind)
        ELSE IF x.status_code = HttpOk THEN DecodedLogs(x.body)
        ELSE Returned(<<>>),
        GetLogsHandlers, <<>>)

\* A variant that looks for the keywords in the event type as spelled.
IsAuthEventAsSpelled(log) ==
    \E keyword \in AuthEventKeywords : Contains(EventTypeOf(log), keyword)

\* any(keyword in log.get('eventType', '').lower() for keyword in AUTH_EVENT_KEYWORDS)
IsAuthEvent(log) ==
    \E keyword \in AuthEventKeywords : Contains(Lower(EventTypeOf(log)), keyword)

\* get_logs returned a decoded JSON object.
GaveObject(x) ==
    x.kind = "response" /\ x.status_code = HttpOk /\ x.body.json = "object"

\* get_authentication_logs(hours_ago) when requests.get does x: the loop is
\* over what get_logs returned, and the keys of a JSON object have no get.
AuthenticationLogsOn(x) ==
    LET all_logs == GetLogsOn(x)
    IN  IF all_logs.status = "raised" THEN all_logs
        ELSE IF GaveObject(x) THEN Raised("AttributeError")
        ELSE Returned(SelectSeq(all_logs.value, IsAuthEvent))

----------------------------------------------------------------------------
(* The collection run: src/src/main.py *)

\* The location of an event: f"{city}, {country}", as the pair it is made of.
LocationOf(log) ==
    LET location == Get(Get(log, "client", <<>>), "geographicalContext", <<>>)
    IN  <<Get(location, "city", "Unknown"), Get(location, "country", "Unknown")>>

\* analyze_geographic_patterns(logs): for every location of an authentication
\* event, the number of these events and their users.
GeographicPatterns(event_list) ==
    LET auth == SelectSeq(event_list, IsAuthentication)
    IN  [location \in {LocationOf(auth[i]) : i \in DOMAIN auth} |->
            [count |-> Cardinality({i \in DOMAIN auth : LocationOf(auth[i]) = location}),
             users |-> {UserOf(auth[i]) :
                           i \in {j \in DOMAIN auth : LocationOf(auth[j]) = location}}]]

\* run_full_analysis(logs)
FullAnalysis(th, event_list) ==
    [summary |-> SecuritySummary(event_list),
     failed_logins |-> FailedLogins(th, event_list),
     mfa_analysis |-> MfaStats(th, event_list),
     geographic_patterns |-> GeographicPatterns(event_list)]

\* json.dump(results, f): the file is a JSON object with the four parts.
JsonDump(results) ==
    [kind |-> "object", summary |-> SummaryDict(results.summary),
     failed_logins |-> results.failed_logins,
     mfa_analysis |-> results.mfa_analysis,
     geographic_patterns |-> results.geographic_patterns]

\* The steps of main() in their order, and the ways a run is stopped: not at
\* all, by the user's interrupt at a step, or by the refusal of open() or of
\* a write of json.dump.
MainSteps == <<"connect", "test_connection", "fetch", "analysis", "display", "open", "dump">>

NoStop == [step |-> "none", exc |-> ""]

Stops ==
    {NoStop}
    \cup {[step |-> MainSteps[i], exc |-> "KeyboardInterrupt"] : i \in DOMAIN MainSteps}
    \cup {[step |-> s, exc |-> "OSError"] : s \in {"open", "dump"}}

\* open(filepath, 'w') creates the file or empties the one that is there;
\* what is in it before json.dump has finished is no JSON.
Opened(d, name) == {f \in d : f.name # name} \cup {File(name, Malformed)}

Saved(d, name, results) == {f \in d : f.name # name} \cup {File(name, JsonDump(results))}

\* The body of the try of main(): the steps done, how the run ended, the
\* files of the directory of main.py afterwards and what the body gave.
MainBody(credentials, net, stop, now, d, th) ==
    LET End(done, ended, files, outcome) ==
            [trace |-> SubSeq(MainSteps, 1, done), ended |-> ended,
             dir |-> files, outcome |-> outcome]
        Stopped(done, files) == End(done, "raised", files, Raised(stop.exc))
        test == TestConnectionOn(net.probe)
        fetched == AuthenticationLogsOn(net.logs)
        results == FullAnalysis(th, fetched.value)
        name == StampName(now)
    IN  IF stop.step = "connect" THEN Stopped(0, d)
        ELSE IF ~credentials THEN End(0, "credentials", d, Raised("ValueError"))
        ELSE IF stop.step = "test_connection" THEN Stopped(1, d)
        ELSE IF ~test.value THEN End(1, "connection", d, Returned(None))
        ELSE IF stop.step = "fetch" THEN Stopped(2, d)
        ELSE IF fetched.status = "raised" THEN End(2, "raised", d, fetched)
        ELSE IF fetched.value = <<>> THEN End(2, "no_logs", d, Returned(None))
        ELSE IF stop.step = "analysis" THEN Stopped(3, d)
        ELSE IF stop.step = "display" THEN Stopped(4, d)
        ELSE IF stop.step = "open" THEN Stopped(5, d)
        ELSE IF stop.step = "dump" THEN Stopped(6, Opened(d, name))
        ELSE End(7, "saved", Saved(d, name, results), Returned(None))

\* The except clauses of main().
MainHandlers == {"ValueError", "KeyboardInterrupt", "Exception"}

\* main()
MainRun(credentials, net, stop, now, d, th) ==
    LET body == MainBody(credentials, net, stop, now, d, th)
    IN  [body EXCEPT !.outcome = Try(@, MainHandlers, None)]

----------------------------------------------------------------------------
(* The dashboard's latest analysis: src/dashboard.py *)

\* A file of ANALYSIS_RESULTS_DIR with its modification time.
FileAt(name, content, mtime) == [name |-> name, content |-> content, mtime |-> mtime]

\* json.load of a JSON object: its keys, "summary" among them when the file
\* has one (a dict, or None for a value that is no dict).
LoadedJson(content) ==
    LET rest == [k \in DOMAIN content \ {"kind", "summary"} |-> content[k]]
    IN  CASE content.summary.t = "dict" -> rest @@ [summary |-> content.summary.v]
          [] content.summary.t = "other" -> rest @@ [summary |-> None]
          [] OTHER -> rest

\* max(json_files, key=st_mtime): one of the files modified last.
Latest(d) == {f \in d : \A g \in d : g.mtime <= f.mtime}

\* What get_latest_analysis() gives for the latest file f: the decoded
\* object, the decoded value that is no object, or {} when open or json.load
\* raises.
AnalysisOf(f) ==
    CASE f.content.kind = "object" -> [t |-> "dict", v |-> LoadedJson(f.content)]
      [] f.content.kind = "array" -> [t |-> "other", v |-> <<>>]
      [] OTHER -> [t |-> "dict", v |-> <<>>]

\* get_latest_analysis() on the files d of ANALYSIS_RESULTS_DIR: every value
\* it can give.
GetLatestAnalysis(d) ==
    IF d = {} THEN {[t |-> "dict", v |-> <<>>]}
    ELSE {AnalysisOf(f) : f \in Latest(d)}

\* The rows the dashboard makes of a dict of suspicious users or addresses.
Rows(entries, key) ==
    {[k \in {key, "failure_count", "risk_level"} |->
         IF k = key THEN e
         ELSE IF k = "failure_count" THEN Get(entries[e], "failure_count", 0)
         ELSE Get(entries[e], "risk_level", "LOW")] : e \in DOMAIN entries}

\* transform_analysis_for_dashboard(analysis) at time now
Transformed(analysis, now) ==
    IF analysis.t = "other" THEN Raised("AttributeError")
    ELSE IF analysis.v = <<>> THEN Returned(<<>>)
    ELSE LET failed_logins == Get(analysis.v, "failed_logins", <<>>)
             mfa_analysis == Get(analysis.v, "mfa_analysis", <<>>)
             geographic == Get(analysis.v, "geographic_patterns", <<>>)
             mfa_suspicious == Get(mfa_analysis, "suspicious_users", <<>>)
         IN  Returned(
                 [summary |-> Get(analysis.v, "summary", <<>>),
                  suspicious_users |-> Rows(Get(failed_logins, "suspicious_users", <<>>), "user"),
                  suspicious_ips |-> Rows(Get(failed_logins, "suspicious_ips", <<>>), "ip"),
                  mfa_analysis |-> mfa_analysis,
                  mfa_suspicious_users |->
                      {[user |-> u, failure_count |-> mfa_suspicious[u]] :
                          u \in DOMAIN mfa_suspicious},
                  geographic_patterns |->
                      {[location |-> l, count |-> Get(geographic[l], "count", 0),
                        users |-> Get(geographic[l], "users", {})] :
                          l \in DOMAIN geographic},
                  last_updated |-> now])

\* How the subprocess python main.py ends: main() ran and the interpreter
\* exited with 0, the interpreter exited with 1 before main() was entered,
\* or the run was killed at a step after the timeout.
Exits == {"exit 0", "exit 1", "timeout"}

----------------------------------------------------------------------------
(* The clock *)

Noon == HoursPerDay \div 2

\* Behaviours start at noon; the clock can advance by k more hours.
CanAdvance(c, k) == (c % HoursPerDay) + k <= Noon + MaxAdvance

\* The readings n successive datetime.now() calls can give from reading lo on.
RECURSIVE ClockReads(_, _)
ClockReads(n, lo) ==
    IF n = 0 THEN {<<>>}
    ELSE UNION {{<<t>> \o s : s \in ClockReads(n - 1, t)} :
                t \in {u \in lo..(lo + MaxAdvance) : CanAdvance(lo, u - lo)}}

----------------------------------------------------------------------------
(* Operations *)

\* TrendsAnalyzer(data_dir): a new analyzer scans the directory.
Construct ==
    /\ \E s \in Scans(dir) :
        /\ analysis_files' = s.files
        /\ last' = [op |-> "__init__", dir |-> dir, ties |-> s.ties]
    /\ result' = Returned(<<>>)
    /\ UNCHANGED <<clock, dir, logs, thresholds, network, src_dir>>

\* A call of get_trend_data(hours) entered under the name op, the clock
\* reading reads[i] at entry i.  last keeps the locals of the call and the
\* directory as it was during the call.
TrendCall(op, hours, reads) ==
    \E run \in {TrendData(dir, analysis_files, hours, reads)} :
        /\ result' = run.result
        /\ last' = [op |-> op, dir |-> dir, hours |-> hours, reads |-> reads,
                    relevant |-> run.relevant, loads |-> run.loads]
        /\ clock' = IF reads = <<>> THEN clock ELSE reads[Len(reads)]

\* The hour counts callers pass.
HourChoices == {1, Hours7Day, Hours30Day}

\* A variant that keeps the selection in self.analysis_files.
GetTrendDataInPlace ==
    \E hours \in HourChoices, reads \in ClockReads(Len(analysis_files), clock) :
        /\ TrendCall("get_trend_data", hours, reads)
        /\ analysis_files' =
               SelectSeq(analysis_files, LAMBDA e : IsWithinHours(e[1], hours, clock))
        /\ UNCHANGED <<dir, logs, thresholds, network, src_dir>>

GetTrendData ==
    \E hours \in HourChoices, reads \in ClockReads(Len(analysis_files), clock) :
        /\ TrendCall("get_trend_data", hours, reads)
        /\ UNCHANGED <<dir, analysis_files, logs, thresholds, network, src_dir>>

\* A variant that passes the preset in days.
Get7DayTrendsInDays ==
    \E reads \in ClockReads(Len(analysis_files), clock) :
        /\ TrendCall("get_7day_trends", WeekDays, reads)
        /\ UNCHANGED <<dir, analysis_files, logs, thresholds, network, src_dir>>

\* get_7day_trends() is self.get_trend_data(hours=168).
Get7DayTrends ==
    \E reads \in ClockReads(Len(analysis_files), clock) :
        /\ TrendCall("get_7day_trends", Hours7Day, reads)
        /\ UNCHANGED <<dir, analysis_files, logs, thresholds, network, src_dir>>

\* get_30day_trends() is self.get_trend_data(hours=720).
Get30DayTrends ==
    \E reads \in ClockReads(Len(analysis_files), clock) :
        /\ TrendCall("get_30day_trends", Hours30Day, reads)
        /\ UNCHANGED <<dir, analysis_files, logs, thresholds, network, src_dir>>

\* A variant that scans the directory again before it compares.
GetWeekOverWeekRescanning ==
    \E s \in Scans(dir) :
        \E run \in {WeekOverWeek(dir, s.files, clock)} :
            /\ analysis_files' = s.files
            /\ result' = run.result
            /\ last' = [op |-> "get_week_over_week", dir |-> dir, now |-> clock,
                        current_week_start |-> run.current_week_start,
                        last_week_start |-> run.last_week_start,
                        two_weeks_ago |-> run.two_weeks_ago,
                        current_week_files |-> run.current_week_files,
                        last_week_files |-> run.last_week_files,
                        loads |-> run.loads]
            /\ UNCHANGED <<clock, dir, logs, thresholds, network, src_dir>>

GetWeekOverWeek ==
    \E run \in {WeekOverWeek(dir, analysis_files, clock)} :
        /\ result' = run.result
        /\ last' = [op |-> "get_week_over_week", dir |-> dir, now |-> clock,
                    current_week_start |-> run.current_week_start,
                    last_week_start |-> run.last_week_start,
                    two_weeks_ago |-> run.two_weeks_ago,
                    current_week_files |-> run.current_week_files,
                    last_week_files |-> run.last_week_files,
                    loads |-> run.loads]
        /\ UNCHANGED <<clock, dir, analysis_files, logs, thresholds, network, src_dir>>

\* An HTTP response of the dashboard: jsonify(body), code.
Response(code, body) == Returned([code |-> code, body |-> body])

\* The hours a request to /api/trends/custom carries (24 when it carries none).
RequestHours ==
    {0 - 1, 0, MinCustomHours, DefaultHours, MaxCustomHours, MaxCustomHours + 1}

\* GET /api/trends/custom?hours=...: the value is validated; a value in range
\* goes to get_trend_data of an analyzer constructed for this request;
\* whatever is raised on the way becomes a 500.
GetCustomTrends ==
    \E hours \in RequestHours :
        IF hours < MinCustomHours \/ hours > MaxCustomHours
        THEN /\ result' = Response(HttpBadRequest, [error |-> "Hours must be between 1 and 8760"])
             /\ last' = [op |-> "get_custom_trends", hours |-> hours,
                         constructed |-> FALSE, dir |-> dir]
             /\ UNCHANGED <<clock, dir, analysis_files, logs, thresholds, network, src_dir>>
        ELSE \E analyzer \in Scans(dir) :
             \E reads \in ClockReads(Len(analyzer.files), clock) :
             \E run \in {TrendData(dir, analyzer.files, hours, reads)} :
                /\ result' = IF run.result.status = "returned"
                             THEN Response(HttpOk, run.result.value)
                             ELSE Response(HttpServerError, [error |-> run.result.exc])
                /\ last' = [op |-> "get_custom_trends", hours |-> hours,
                            constructed |-> TRUE, dir |-> dir,
                            files |-> analyzer.files, reads |-> reads,
                            relevant |-> run.relevant, loads |-> run.loads]
                /\ clock' = IF reads = <<>> THEN clock ELSE reads[Len(reads)]
                /\ UNCHANGED <<dir, analysis_files, logs, thresholds, network, src_dir>>

\* The events Okta answers with, and what requests.get can do.
ConnectorEvents ==
    {[eventType |-> <<Word("user"), Word("authentication"), Word("auth_success")>>],
     [eventType |-> <<Word("user"), Word("session"), Word("start")>>],
     [eventType |-> <<Word("user"), Word("mfa"), Word("factor_enroll_success")>>],
     [eventType |-> <<Word("system"), Word("email"), Word("verify")>>],
     [eventType |-> <<Word("app"), Word("generic"), Word("unclassified"), Word("event")>>],
     [eventType |-> <<Word("user"), Word("account"), Capitalised("login")>>],
     [published |-> "2026-01-11T10:00:00Z"]}

Probes ==
    {Failure("Timeout"), Failure("ConnectionError"), Answer(HttpOk, BodyArray(<<>>)),
     Answer(HttpUnauthorized, BodyObject), Answer(HttpServerError, BodyNotJson)}

Exchanges ==
    {Failure("Timeout"), Failure("ConnectionError")}
    \cup {Answer(HttpOk, BodyArray(items)) :
             items \in UNION {[1..n -> ConnectorEvents] : n \in 0..MaxLogs}}
    \cup {Answer(HttpOk, body) : body \in {BodyObject, BodyNull, BodyNotJson}}
    \cup {Answer(status_code, body) : status_code \in {HttpUnauthorized, HttpServerError},
                                      body \in {BodyObject, BodyNotJson}}

\* OktaConnector().test_connection()
TestConnection ==
    \E x \in {network.probe} :
        /\ result' = TestConnectionOn(x)
        /\ last' = [op |-> "test_connection", exchange |-> x]
        /\ UNCHANGED <<clock, dir, analysis_files, logs, thresholds, network, src_dir>>

\* OktaConnector().get_logs()
GetLogs ==
    \E x \in {network.logs} :
        /\ result' = GetLogsOn(x)
        /\ last' = [op |-> "get_logs", exchange |-> x]
        /\ UNCHANGED <<clock, dir, analysis_files, logs, thresholds, network, src_dir>>

\* OktaConnector().get_authentication_logs()
GetAuthenticationLogs ==
    \E x \in {network.logs} :
        /\ result' = AuthenticationLogsOn(x)
        /\ last' = [op |-> "get_authentication_logs", exchange |-> x]
        /\ UNCHANGED <<clock, dir, analysis_files, logs, thresholds, network, src_dir>>

\* One run of main(): the credentials are in the environment or not, and
\* the run is stopped at a step or not.
Main ==
    \E credentials \in BOOLEAN, stop \in Stops :
        \E run \in {MainRun(credentials, network, stop, clock, src_dir, thresholds)} :
            /\ thresholds # NotImported
            /\ src_dir' = run.dir
            /\ result' = run.outcome
            /\ last' = [op |-> "main", credentials |-> credentials, stop |-> stop,
                        now |-> clock, before |-> src_dir,
                        trace |-> run.trace, ended |-> run.ended]
            /\ UNCHANGED <<clock, dir, analysis_files, logs, thresholds, network>>

\* POST /api/fetch-fresh-data: main.py is run as a subprocess, in the
\* directory src/ beside dashboard.py; after a return code 0 the latest
\* analysis of ANALYSIS_RESULTS_DIR is transformed and returned.
FetchFreshData ==
    \E exit \in Exits, credentials \in BOOLEAN, stop \in Stops :
        \E run \in {MainRun(credentials, network, stop, clock, src_dir, thresholds)} :
        \E analysis \in GetLatestAnalysis(dir) :
        \E transformed \in {Transformed(analysis, clock)} :
            /\ thresholds # NotImported
            /\ exit = "exit 0" \/ stop = NoStop
            /\ exit = "timeout" => stop.exc = "KeyboardInterrupt"
            /\ src_dir' = IF exit = "exit 1" THEN src_dir ELSE run.dir
            /\ result' =
                   CASE exit = "timeout" ->
                            Response(HttpGatewayTimeout, [status |-> "error"])
                     [] exit = "exit 1" ->
                            Response(HttpServerError, [status |-> "error", returncode |-> 1])
                     [] OTHER ->
                            IF transformed.status = "raised"
                            THEN Response(HttpServerError, [status |-> "error"])
                            ELSE Response(HttpOk, [status |-> "success",
                                                   data |-> transformed.value,
                                                   timestamp |-> clock])
            /\ last' = [op |-> "fetch_fresh_data", exit |-> exit,
                        returncode |-> IF exit = "exit 0" THEN 0 ELSE 1,
                        before |-> src_dir, scanned |-> dir,
                        trace |-> IF exit = "exit 1" THEN <<>> ELSE run.trace,
                        ended |-> IF exit = "exit 0" THEN run.ended ELSE "killed"]
            /\ UNCHANGED <<clock, dir, analysis_files, logs, thresholds, network>>

\* LogAnalyzer().generate_summary(logs)
GenerateSummary ==
    /\ thresholds # NotImported
    /\ result' = Returned(SecuritySummary(logs))
    /\ last' = [op |-> "generate_summary"]
    /\ UNCHANGED <<clock, dir, analysis_files, logs, thresholds, network, src_dir>>

\* LogAnalyzer().analyze_mfa_events(logs)
AnalyzeMfaEvents ==
    /\ thresholds # NotImported
    /\ result' = Returned(MfaStats(thresholds, logs))
    /\ last' = [op |-> "analyze_mfa_events"]
    /\ UNCHANGED <<clock, dir, analysis_files, logs, thresholds, network, src_dir>>

\* LogAnalyzer()._calculate_risk_level(failure_count)
CalculateRisk ==
    \E failure_count \in 0..MaxFailureCount :
        /\ thresholds # NotImported
        /\ result' = Returned(CalculateRiskLevel(thresholds, failure_count))
        /\ last' = [op |-> "_calculate_risk_level", failure_count |-> failure_count]
        /\ UNCHANGED <<clock, dir, analysis_files, logs, thresholds, network, src_dir>>

\* LogAnalyzer().analyze_failed_logins(logs)
AnalyzeFailedLogins ==
    /\ thresholds # NotImported
    /\ result' = Returned(FailedLogins(thresholds, logs))
    /\ last' = [op |-> "analyze_failed_logins"]
    /\ UNCHANGED <<clock, dir, analysis_files, logs, thresholds, network, src_dir>>

\* Time passes between calls.
Tick ==
    /\ CanAdvance(clock, 1)
    /\ clock' = clock + 1
    /\ UNCHANGED <<dir, analysis_files, result, last, logs, thresholds, network, src_dir>>

\* Something outside the analyzer deletes a snapshot file.
RemoveFile ==
    /\ \E f \in dir : dir' = dir \ {f}
    /\ UNCHANGED <<clock, analysis_files, result, last, logs, thresholds, network, src_dir>>

----------------------------------------------------------------------------
(* Initial states: a directory, and an analyzer constructed on it *)

\* The directories of at most n files drawn from files, no name twice.
RECURSIVE Dirs(_, _)
Dirs(files, n) ==
    IF n = 0 THEN {{}}
    ELSE LET smaller == Dirs(files, n - 1)
         IN  smaller \cup
             UNION {{d \cup {f} : f \in {g \in files : g.name \notin Names(d)}} :
                    d \in smaller}

\* The files named by the timestamps c + o, o in offsets, with each content.
FilesAt(c, offsets, contents) ==
    {File(StampName(c + o), x) : o \in offsets, x \in contents}

Constructed(c, files) ==
    /\ clock = c
    /\ dir \in Dirs(files, MaxFiles)
    /\ \E s \in Scans(dir) :
        /\ analysis_files = s.files
        /\ last = [op |-> "__init__", dir |-> dir, ties |-> s.ties]
    /\ result = NoCall
    /\ logs = <<>>
    /\ thresholds = NotImported
    /\ network = Offline
    /\ src_dir = {}

\* A Monday 00:00 far enough from the epoch for a 30-day window.
BaseMonday == 6 * WeekDays * HoursPerDay

Snapshot40 == JsonObject(SummaryDict(Fields(40, 5, 35, 3, 87456)))
Snapshot60 == JsonObject(SummaryDict(Fields(60, 20, 40, 4, 66670)))
Snapshot50 == JsonObject(SummaryDict([total_events |-> 50, failed_logins |-> 7]))
SnapshotBusy == JsonObject(SummaryDict(Fields(40000, 10, 39990, 9, 99980)))
SnapshotBusier == JsonObject(SummaryDict(Fields(40001, 5, 39996, 9, 99990)))

\* Trend windows: snapshots 2, 5 and 9 days old, one at the 7-day cutoff, one
\* older than the 30-day cutoff, and one dated after now; some of them
\* malformed.
TrendFiles(c) ==
    FilesAt(c, {0 - 721, 0 - 48, 2}, {Snapshot40})
    \cup FilesAt(c, {0 - 168, 0 - 120, 2}, {Snapshot60})
    \cup FilesAt(c, {0 - 216}, {Snapshot50})
    \cup FilesAt(c, {0 - 216, 0 - 120, 0 - 48}, {Malformed})

InitTrend == LET c == BaseMonday + Noon IN Constructed(c, TrendFiles(c))

NextTrend == Construct \/ GetTrendData \/ Get7DayTrends \/ Get30DayTrends \/ Tick

SpecTrend == InitTrend /\ [][NextTrend]_vars

\* Windows whose cutoff passes snapshots while the call runs: snapshots at
\* the 7-day cutoff under two spellings of one timestamp and an hour after
\* it, an older one and a recent one.
SuffixFiles(c) ==
    FilesAt(c, {0 - 200, 0 - 168, 0 - 167, 0 - 48}, {Snapshot40})
    \cup {File(FileName(TRUE, c - 168, 1), Snapshot60)}

InitSuffix == LET c == BaseMonday + Noon IN Constructed(c, SuffixFiles(c))

NextSuffix == Construct \/ GetTrendData \/ Tick

SpecSuffix == InitSuffix /\ [][NextSuffix]_vars

\* Week buckets: snapshots at and just before now - 14 days, at and just
\* before the Monday a week before the current week's Monday, at now - 8 and
\* now - 7 days, at now and after now; some of them malformed; and two busy
\* weeks that differ by one event.
WeekFiles(c) ==
    LET boundary == LastWeekStart(c) - c
        day == HoursPerDay
    IN  FilesAt(c, {0 - 14 * day - 1, 0 - 14 * day, boundary - 1, boundary,
                    0 - 8 * day, 0 - 7 * day, 0, 1}, {Snapshot40})
        \cup FilesAt(c, {boundary - 1, boundary, 0 - 8 * day, 0}, {Snapshot60})
        \cup FilesAt(c, {0 - 14 * day, 0 - 7 * day, 0}, {Malformed})
        \cup FilesAt(c, {boundary - 1}, {SnapshotBusy})
        \cup FilesAt(c, {0}, {SnapshotBusier})

InitWeek ==
    \E wd \in 0..(WeekDays - 1) :
        LET c == BaseMonday + HoursPerDay * wd + Noon
        IN  Constructed(c, WeekFiles(c))

NextWeek == Construct \/ GetWeekOverWeek \/ Tick

SpecWeek == InitWeek /\ [][NextWeek]_vars

\* Failure handling: every kind of file content in snapshots 2 and 9 days
\* old, a name that does not parse, and files deleted after the catalog was
\* built.
ErrorContents ==
    {Snapshot40, JsonObject(SummaryAbsent), JsonObject(SummaryOther), JsonArray,
     Malformed, Undecodable, Unreadable}

ErrorFiles(c) ==
    FilesAt(c, {0 - 216, 0 - 48}, ErrorContents)
    \cup {File(FileName(FALSE, 0, 0), Snapshot40)}

InitError == LET c == BaseMonday + Noon IN Constructed(c, ErrorFiles(c))

NextError ==
    \/ Construct \/ GetTrendData \/ Get7DayTrends \/ Get30DayTrends
    \/ GetWeekOverWeek \/ Tick \/ RemoveFile

SpecError == InitError /\ [][NextError]_vars

\* The catalog: snapshots 2 and 9 days old, the younger one under three
\* spellings of its timestamp (strptime accepts fields without their leading
\* zero), one of them a file that does not load, and a name that does not
\* parse; files are written and deleted while the analyzer lives.
CatalogFiles(c) ==
    FilesAt(c, {0 - 216, 0 - 48}, {Snapshot40})
    \cup {File(FileName(TRUE, c - 48, 1), Snapshot60),
          File(FileName(TRUE, c - 48, 2), Malformed),
          File(FileName(FALSE, 0, 0), Snapshot40)}

\* The clock stands at its last reading: what the passage of time does is
\* covered by SpecTrend and SpecWeek.
CatalogStart == BaseMonday + Noon + MaxAdvance

InitCatalog == Constructed(CatalogStart, CatalogFiles(CatalogStart))

\* Something outside the analyzer writes a file into the directory.
AddFile ==
    \E f \in CatalogFiles(CatalogStart) :
        /\ f.name \notin Names(dir)
        /\ Cardinality(dir) < MaxFiles
        /\ dir' = dir \cup {f}
        /\ UNCHANGED <<clock, analysis_files, result, last, logs, thresholds, network, src_dir>>

NextCatalog ==
    \/ Construct \/ GetTrendData \/ Get7DayTrends \/ Get30DayTrends
    \/ GetWeekOverWeek \/ RemoveFile \/ AddFile

SpecCatalog == InitCatalog /\ [][NextCatalog]_vars

\* The dashboard's custom-trends endpoint, on directories of snapshots 2 and
\* 9 days old that load, do not load, or hold a JSON array.
CustomFiles(c) == FilesAt(c, {0 - 216, 0 - 48}, {Snapshot40, Malformed, JsonArray})

InitCustom == LET c == BaseMonday + Noon IN Constructed(c, CustomFiles(c))

NextCustom == GetCustomTrends \/ RemoveFile \/ Tick

SpecCustom == InitCustom /\ [][NextCustom]_vars

\* The log analyzer, on every list of at most MaxLogs of these events: a
\* failed and a successful authentication of one user, a failed one of
\* another user from the same address, a failed event that is no
\* authentication, and a failed authentication spelled with capitals that
\* names neither user nor address.
Event(type, outcome, user, ip) ==
    [eventType |-> type, outcome |-> [result |-> outcome],
     actor |-> [alternateId |-> user], client |-> [ipAddress |-> ip],
     published |-> "2026-01-11T10:00:00Z"]

AuthFailed == <<Word("user"), Word("authentication"), Word("auth_failed")>>

Events ==
    {Event(AuthFailed, "FAILURE", "user@example.com", "192.168.1.1"),
     Event(AuthFailed, "FAILURE", "user2@example.com", "192.168.1.1"),
     Event(<<Word("user"), Word("authentication"), Word("sso")>>, "SUCCESS",
           "user@example.com", "192.168.1.1"),
     Event(<<Word("user"), Word("session"), Word("start")>>, "FAILURE",
           "user@example.com", "192.168.1.1"),
     [eventType |-> <<Word("user"), Capitalised("authentication"), Word("sso")>>,
      outcome |-> [result |-> "FAILURE", reason |-> "INVALID_CREDENTIALS"]]}

LogLists == UNION {[1..n -> Events] : n \in 0..MaxLogs}

InitLogs ==
    /\ clock = BaseMonday
    /\ dir = {}
    /\ analysis_files = <<>>
    /\ result = NoCall
    /\ last = [op |-> "LogAnalyzer.__init__"]
    /\ logs \in LogLists
    /\ thresholds \in Configs
    /\ network = Offline
    /\ src_dir = {}

NextLogs == AnalyzeFailedLogins

SpecLogs == InitLogs /\ [][NextLogs]_vars

\* The risk level of every failure count, under every configuration.
InitRisk ==
    /\ clock = BaseMonday
    /\ dir = {}
    /\ analysis_files = <<>>
    /\ result = NoCall
    /\ last = [op |-> "LogAnalyzer.__init__"]
    /\ logs = <<>>
    /\ thresholds \in Configs
    /\ network = Offline
    /\ src_dir = {}

NextRisk == CalculateRisk

SpecRisk == InitRisk /\ [][NextRisk]_vars

\* One analyzer, whose thresholds play no part in the operation called.
Analyzer(event_lists) ==
    /\ clock = BaseMonday
    /\ dir = {}
    /\ analysis_files = <<>>
    /\ result = NoCall
    /\ last = [op |-> "LogAnalyzer.__init__"]
    /\ logs \in event_lists
    /\ thresholds = CHOOSE th \in Configs : TRUE
    /\ network = Offline
    /\ src_dir = {}

ListsOf(events) == UNION {[1..n -> events] : n \in 0..MaxLogs}

\* The summary of every list of at most MaxLogs of these events: a
\* successful, a failed and an undecided authentication, an event that is no
\* authentication from a user and an address of its own, and a successful
\* authentication spelled with capitals, of an empty user and no address.
SummaryEvents ==
    {Event(<<Word("user"), Word("authentication"), Word("sso")>>, "SUCCESS",
           "user@example.com", "192.168.1.1"),
     Event(AuthFailed, "FAILURE", "user2@example.com", "192.168.1.1"),
     Event(<<Word("user"), Word("authentication"), Word("auth_via_mfa")>>, "CHALLENGE",
           "user@example.com", "192.168.1.2"),
     Event(<<Word("user"), Word("session"), Word("start")>>, "SUCCESS",
           "user3@example.com", "192.168.1.3"),
     [eventType |-> <<Word("user"), Capitalised("authentication"), Word("sso")>>,
      outcome |-> [result |-> "SUCCESS"],
      actor |-> [alternateId |-> ""]]}

InitSummary == Analyzer(ListsOf(SummaryEvents))

NextSummary == GenerateSummary

SpecSummary == InitSummary /\ [][NextSummary]_vars

\* The MFA statistics of every list of at most MaxLogs of these events, all
\* but the last of one user: a successful, a failed, a denied and an
\* undecided challenge, a failed authentication that is no MFA event, and a
\* failed challenge spelled with capitals that names no user.
MfaEvent(words, outcome) ==
    Event(<<Word("user"), Word("mfa")>> \o words, outcome,
          "user@example.com", "192.168.1.1")

MfaEvents ==
    {MfaEvent(<<Word("factor"), Word("verify")>>, "SUCCESS"),
     MfaEvent(<<Word("factor"), Word("verify")>>, "FAILURE"),
     MfaEvent(<<Word("okta_verify"), Word("deny"), Word("push")>>, "UNKNOWN"),
     MfaEvent(<<Word("factor"), Word("challenge")>>, "UNKNOWN"),
     Event(AuthFailed, "FAILURE", "user@example.com", "192.168.1.1"),
     [eventType |-> <<Word("user"), Capitalised("mfa"), Word("factor"), Word("verify")>>,
      outcome |-> [result |-> "FAILURE"]]}

InitMfa == Analyzer(ListsOf(MfaEvents))

NextMfa == AnalyzeMfaEvents

SpecMfa == InitMfa /\ [][NextMfa]_vars

\* A connector, and every answer of Okta to its requests.
InitConnector ==
    /\ clock = BaseMonday
    /\ dir = {}
    /\ analysis_files = <<>>
    /\ result = NoCall
    /\ last = [op |-> "OktaConnector.__init__"]
    /\ logs = <<>>
    /\ thresholds = NotImported
    /\ network \in {Network(probe, Failure("Timeout")) : probe \in Probes}
                   \cup {Network(Answer(HttpOk, BodyArray(<<>>)), query) :
                            query \in Exchanges}
    /\ src_dir = {}

NextConnector == TestConnection \/ GetLogs \/ GetAuthenticationLogs

SpecConnector == InitConnector /\ [][NextConnector]_vars

\* Runs of main() against every answer of Okta to the two requests, in a
\* directory that is empty or holds one earlier snapshot.
MainQueries ==
    {Failure("Timeout"), Answer(HttpOk, BodyObject), Answer(HttpOk, BodyArray(<<>>)),
     Answer(HttpOk, BodyArray(<<[eventType |-> <<Word("app"), Word("generic")>>]>>)),
     Answer(HttpOk, BodyArray(<<Event(AuthFailed, "FAILURE", "user@example.com",
                                      "192.168.1.1"),
                                [eventType |-> <<Word("user"), Word("session"),
                                                 Word("start")>>]>>))}

InitMain ==
    /\ clock = BaseMonday + Noon
    /\ dir = {}
    /\ analysis_files = <<>>
    /\ result = NoCall
    /\ last = [op |-> "none"]
    /\ logs = <<>>
    /\ thresholds = CHOOSE th \in Configs : TRUE
    /\ network \in {Network(probe, query) : probe \in Probes, query \in MainQueries}
    /\ src_dir \in {{}, {File(StampName(BaseMonday), JsonObject(SummaryDict(Snapshot40)))}}

NextMain == Main \/ Tick

SpecMain == InitMain /\ [][NextMain]_vars

\* The dashboard beside a directory src/ without snapshots: its own
\* directory is empty or holds earlier snapshots.
FreshFiles ==
    {FileAt(StampName(BaseMonday), JsonObject(SummaryDict(Snapshot40)), BaseMonday),
     FileAt(StampName(BaseMonday + 1), JsonObject(SummaryDict(Snapshot60)), BaseMonday),
     FileAt(StampName(BaseMonday + 2), Malformed, BaseMonday + 2)}

InitFresh ==
    /\ clock = BaseMonday + Noon
    /\ dir \in SUBSET FreshFiles
    /\ analysis_files = <<>>
    /\ result = NoCall
    /\ last = [op |-> "none"]
    /\ logs = <<>>
    /\ thresholds = CHOOSE th \in Configs : TRUE
    /\ network \in {Network(probe, query) :
                        probe \in {Failure("Timeout"), Answer(HttpOk, BodyArray(<<>>))},
                        query \in MainQueries}
    /\ src_dir = {}

NextFresh == FetchFreshData \/ Tick

SpecFresh == InitFresh /\ [][NextFresh]_vars

\* Everything together.
Init == InitError \/ InitCatalog \/ InitCustom \/ InitLogs \/ InitConnector

Next ==
    \/ NextCatalog \/ Tick \/ GetCustomTrends
    \/ AnalyzeFailedLogins \/ CalculateRisk \/ GenerateSummary \/ AnalyzeMfaEvents
    \/ NextConnector \/ Main \/ FetchFreshData

Spec == Init /\ [][Next]_vars

----------------------------------------------------------------------------
(* Properties of the Trend Window Engine *)

TrendOps == {"get_trend_data", "get_7day_trends", "get_30day_trends"}

TrendReturned == last.op \in TrendOps /\ result.status = "returned"

\* The timestamps of the returned series; the result for an empty window
\* carries no "timestamps" and an empty "data_points".
Series(v) == IF "timestamps" \in DOMAIN v THEN v.timestamps ELSE v.data_points

\* json.load accepts the file of catalog entry e (in the directory of the call).
LoadsSuccessfully(e) ==
    /\ e[2] \in Names(last.dir)
    /\ ContentOf(last.dir, e[2]).kind \in {"object", "array"}

\* The catalog positions at or after the cutoff, each by its own clock reading.
AtOrAfterCutoff ==
    {i \in DOMAIN analysis_files : analysis_files[i][1] >= last.reads[i] - last.hours}

\* The catalog positions a call has to put into the series, in catalog order.
Expected ==
    SelectSeq([i \in 1..Len(analysis_files) |-> i],
              LAMBDA i : i \in AtOrAfterCutoff /\ LoadsSuccessfully(analysis_files[i]))

\* C1: a call of get_trend_data(H) that returns puts a catalog snapshot into
\* the series if and only if its timestamp is >= now - H (now as read when
\* the entry is tested) and its file loads: the bound is inclusive, nothing
\* bounds it from above, nothing older is included, nothing else is left out.
C1_WindowMembership ==
    TrendReturned =>
        Series(result.value) = [k \in 1..Len(Expected) |-> analysis_files[Expected[k]][1]]

\* A call that kept a snapshot exactly at the cutoff and one dated after now,
\* and left out an older one.
C1_Witness ==
    /\ TrendReturned
    /\ \E i, j, k \in DOMAIN analysis_files :
        /\ analysis_files[i][1] = last.reads[i] - last.hours
        /\ analysis_files[j][1] > last.reads[j]
        /\ analysis_files[k][1] < last.reads[k] - last.hours
        /\ \E a, b \in DOMAIN result.value.timestamps :
            /\ result.value.timestamps[a] = analysis_files[i][1]
            /\ result.value.timestamps[b] = analysis_files[j][1]
        /\ \A a \in DOMAIN result.value.timestamps :
            result.value.timestamps[a] # analysis_files[k][1]

MetricKeys ==
    {"total_events", "failed_logins", "successful_logins", "unique_users",
     "login_success_rate"}

\* C28: the catalog entries one call of get_trend_data(H) selects are a
\* suffix of the sorted catalog: with an entry, every later entry is
\* selected, also when the clock advances between the tests of the entries.
C28_SelectionIsSuffix ==
    last.op \in TrendOps =>
        \A i, j \in DOMAIN analysis_files :
            (i < j /\ (\E k \in DOMAIN last.relevant : last.relevant[k] = i)) =>
                \E k \in DOMAIN last.relevant : last.relevant[k] = j

\* C5: when no catalog entry qualifies, get_trend_data(H) returns an empty
\* series of the shape of a non-empty result: empty timestamps, five empty
\* per-metric sequences under data_points, a summary of zero aggregates and a
\* zero data_points_count.
C5_EmptySeriesShape ==
    (TrendReturned /\ last.relevant = <<>>) =>
        /\ "timestamps" \in DOMAIN result.value
        /\ result.value.timestamps = <<>>
        /\ DOMAIN result.value.data_points = MetricKeys
        /\ \A key \in MetricKeys : result.value.data_points[key] = <<>>
        /\ result.value.summary =
               [min_events |-> 0, max_events |-> 0, avg_events |-> 0,
                min_failures |-> 0, max_failures |-> 0, avg_failures |-> 0,
                data_points_count |-> 0]

\* The value of field key of the snapshot at catalog position i.
StoredField(i, key) ==
    Get(SummaryFields(ContentOf(last.dir, analysis_files[i][2])), key, 0)

\* x (in thousandths) is n / d rounded to two decimals.
IsRounded2(x, n, d) ==
    /\ x % 10 = 0
    /\ 2 * (x * d - 1000 * n) <= 10 * d
    /\ 2 * (1000 * n - x * d) <= 10 * d

\* lo, hi and avg are the minimum, the maximum and the rounded mean of the
\* values of field key over the catalog positions in idx (a non-empty sequence).
IsMinMaxAvg(lo, hi, avg, idx, key) ==
    LET values == {StoredField(idx[k], key) : k \in DOMAIN idx}
    IN  /\ lo \in values /\ \A x \in values : lo <= x
        /\ hi \in values /\ \A x \in values : hi >= x
        /\ IsRounded2(avg, SumSeq([k \in DOMAIN idx |-> StoredField(idx[k], key)]),
                      Len(idx))

\* sm summarises the qualifying snapshots that loaded.
IsSummaryOfLoaded(sm) ==
    /\ sm.data_points_count = Len(Expected)
    /\ Expected = <<>> =>
           sm = [min_events |-> 0, max_events |-> 0, avg_events |-> 0,
                 min_failures |-> 0, max_failures |-> 0, avg_failures |-> 0,
                 data_points_count |-> 0]
    /\ Expected # <<>> =>
           /\ IsMinMaxAvg(sm.min_events, sm.max_events, sm.avg_events,
                          Expected, "total_events")
           /\ IsMinMaxAvg(sm.min_failures, sm.max_failures, sm.avg_failures,
                          Expected, "failed_logins")

\* The snapshot of the file named name has value x at field key (its rate to
\* two decimals).
HasValue(name, key, x) ==
    /\ name \in Names(last.dir)
    /\ LET stored == Get(SummaryFields(ContentOf(last.dir, name)), key, 0)
       IN  IF key = "login_success_rate" THEN IsRounded2(x, stored, 1000) ELSE x = stored

\* C29: in the result of a non-empty window the timestamps and the five
\* metric sequences have one length, which is data_points_count; position i
\* of all of them belongs to one snapshot, the positions follow the catalog;
\* the timestamps ascend; min <= avg <= max for events and for failures.
C29_SeriesAligned ==
    (TrendReturned /\ last.relevant # <<>>) =>
        LET v == result.value
            n == Len(v.timestamps)
            sm == v.summary
        IN  /\ DOMAIN v.data_points = MetricKeys
            /\ \A key \in MetricKeys : Len(v.data_points[key]) = n
            /\ sm.data_points_count = n
            /\ \E at \in [1..n -> DOMAIN analysis_files] :
                   /\ \A i, j \in 1..n : i < j => at[i] < at[j]
                   /\ \A i \in 1..n :
                          /\ v.timestamps[i] = analysis_files[at[i]][1]
                          /\ \A key \in MetricKeys :
                                 HasValue(analysis_files[at[i]][2], key,
                                          v.data_points[key][i])
            /\ \A i, j \in 1..n : i < j => v.timestamps[i] <= v.timestamps[j]
            /\ 1000 * sm.min_events <= sm.avg_events
            /\ sm.avg_events <= 1000 * sm.max_events
            /\ 1000 * sm.min_failures <= sm.avg_failures
            /\ sm.avg_failures <= 1000 * sm.max_failures

\* Three entries in the window, the middle one with a file that is no JSON:
\* two positions, of different snapshots, and an average strictly between.
C29_Witness ==
    /\ TrendReturned
    /\ Len(last.relevant) = 3
    /\ Len(result.value.timestamps) = 2
    /\ result.value.timestamps[1] < result.value.timestamps[2]
    /\ ContentOf(last.dir, analysis_files[last.relevant[2]][2]).kind = "malformed"
    /\ result.value.data_points.total_events[1] # result.value.data_points.total_events[2]
    /\ 1000 * result.value.summary.min_events < result.value.summary.avg_events
    /\ result.value.summary.avg_events < 1000 * result.value.summary.max_events

\* C9: the summary of a non-empty window holds the minimum, maximum and mean
\* (rounded to 2 decimals) of total_events and of failed_logins over exactly
\* the qualifying snapshots that loaded, and their number; all are 0 when
\* entries qualify and none loads.
C9_SummaryAggregates ==
    (TrendReturned /\ last.relevant # <<>>) => IsSummaryOfLoaded(result.value.summary)

\* Snapshots 2, 5 and 9 days old with total_events 40, 60, 50 and H = 168:
\* min 40, max 60, avg 50.0, count 2 (and failures 5 and 20: avg 12.5).
C9_Witness ==
    /\ TrendReturned
    /\ last.hours = Hours7Day
    /\ Len(analysis_files) = 3
    /\ \A i \in 1..3 : analysis_files[i][1] = last.reads[i] - HoursPerDay * <<9, 5, 2>>[i]
    /\ \A i \in 1..3 : StoredField(i, "total_events") = <<50, 60, 40>>[i]
    /\ result.value.summary =
           [min_events |-> 40, max_events |-> 60, avg_events |-> 50000,
            min_failures |-> 5, max_failures |-> 20, avg_failures |-> 12500,
            data_points_count |-> 2]

\* Entries qualified and none of them loaded.
C9_WitnessNoneLoads ==
    /\ TrendReturned
    /\ Len(last.relevant) >= 2
    /\ result.value.summary.data_points_count = 0

----------------------------------------------------------------------------
(* Properties of the Comparative Engine *)

WeekCalled == last.op = "get_week_over_week"

\* C2: with now read once, the current-week bucket is exactly the catalog
\* snapshots with now - 7 days <= ts <= now and the previous-week bucket
\* exactly those with now - 14 days <= ts < now - 7 days.
C2_WeekBuckets ==
    WeekCalled =>
        LET now == last.now
            week == HoursPerDay * WeekDays
        IN  /\ last.current_week_files =
                   SelectSeq(analysis_files, LAMBDA e : now - week <= e[1] /\ e[1] <= now)
            /\ last.last_week_files =
                   SelectSeq(analysis_files,
                             LAMBDA e : now - 2 * week <= e[1] /\ e[1] < now - week)

\* C3: the lower bounds of the current-week and of the previous-week bucket
\* each fall on a Monday and each bucket spans exactly 7 days.
C3_MondayToMonday ==
    WeekCalled =>
        LET week == HoursPerDay * WeekDays
        IN  /\ Weekday(last.last_week_start) = 0
            /\ Weekday(last.two_weeks_ago) = 0
            /\ last.now - last.last_week_start = week
            /\ last.last_week_start - last.two_weeks_ago = week

InBucket(e, bucket) == \E k \in DOMAIN bucket : bucket[k] = e

\* C4: no snapshot is counted in both buckets, and a snapshot dated exactly at
\* the instant where the previous-week bucket ends and the current-week bucket
\* begins is counted in the current-week bucket only.
C4_BucketsDisjoint ==
    WeekCalled =>
        \A i \in DOMAIN analysis_files :
            LET e == analysis_files[i]
            IN  /\ ~(InBucket(e, last.current_week_files)
                     /\ InBucket(e, last.last_week_files))
                /\ e[1] = last.last_week_start =>
                       /\ InBucket(e, last.current_week_files)
                       /\ ~InBucket(e, last.last_week_files)

\* A call with one snapshot exactly at the boundary and one in the previous week.
C4_Witness ==
    /\ WeekCalled
    /\ \E k \in DOMAIN last.current_week_files :
           last.current_week_files[k][1] = last.last_week_start
    /\ last.last_week_files # <<>>

WeekReturned == WeekCalled /\ result.status = "returned"

\* The (current, previous, change) triples of the three compared metrics.
Compared ==
    LET v == result.value
    IN  {<<v.current_week.total_events, v.last_week.total_events,
           v.comparison.events_change>>,
         <<v.current_week.failed_logins, v.last_week.failed_logins,
           v.comparison.failures_change>>,
         <<v.current_week.avg_success_rate, v.last_week.avg_success_rate,
           v.comparison.success_rate_change>>}

\* C10: with previous = 0, calc_change gives 0 and "stable" when current = 0
\* and the fixed 100 and "up" for every current > 0, whatever its magnitude,
\* for each of the three compared metrics.
C10_GrowthFromZero ==
    WeekReturned =>
        \A t \in Compared :
            t[2] = 0 =>
                /\ t[1] = 0 => t[3] = [change_percent |-> 0, direction |-> "stable"]
                /\ t[1] > 0 => t[3] = [change_percent |-> 100000, direction |-> "up"]

\* A call whose previous week is empty and whose current week holds two
\* snapshots (100 events, 25 failures).
C10_Witness ==
    /\ WeekReturned
    /\ result.value.last_week.total_events = 0
    /\ result.value.current_week.total_events = 100
    /\ result.value.current_week.failed_logins = 25
    /\ \A t \in Compared : t[3] = [change_percent |-> 100000, direction |-> "up"]

\* The triples of Compared whose previous value is not 0.
ComparedNonZero == {t \in Compared : t[2] # 0}

\* x (in thousandths) is (current - previous) / previous * 100 rounded to two
\* decimals (previous > 0).
IsRoundedChange(x, current, previous) ==
    LET k == x \div 10
        exact == 100 * 100 * (current - previous)
    IN  /\ x % 10 = 0
        /\ 2 * (k * previous - exact) <= previous
        /\ 2 * (exact - k * previous) <= previous

\* C11 as stated: with previous # 0 the change is the rounded percentage, and
\* the direction is 'up' if the change is > 0, 'down' if it is < 0 and
\* 'stable' only if current = previous.
C11_StableOnlyIfEqual ==
    WeekReturned =>
        \A t \in ComparedNonZero :
            /\ IsRoundedChange(t[3].change_percent, t[1], t[2])
            /\ t[3].direction = "up" <=> t[1] > t[2]
            /\ t[3].direction = "down" <=> t[1] < t[2]
            /\ t[3].direction = "stable" <=> t[1] = t[2]

\* C11 (amended): with previous # 0 the change is (current - previous) /
\* previous * 100 rounded to 2 decimals, and the direction is the sign of the
\* rounded value: 'up' if it is > 0, 'down' if it is < 0, 'stable' if it is
\* 0, which it is when current = previous and also when the change is less
\* than 0.005 percent.
C11_ChangeFromNonZero ==
    WeekReturned =>
        \A t \in ComparedNonZero :
            /\ IsRoundedChange(t[3].change_percent, t[1], t[2])
            /\ t[3].direction = "up" <=> t[3].change_percent > 0
            /\ t[3].direction = "down" <=> t[3].change_percent < 0
            /\ t[3].direction = "stable" <=> t[3].change_percent = 0
            /\ t[1] = t[2] => t[3].direction = "stable"
            /\ t[3].direction = "up" => t[1] > t[2]
            /\ t[3].direction = "down" => t[1] < t[2]

\* 40001 events against 40000 give {0.0, 'stable'}, 5 failures against 10
\* give {-50.0, 'down'}, and a rate of 99.99 against 99.98 gives {0.01, 'up'}.
C11_Witness ==
    /\ WeekReturned
    /\ result.value.current_week.total_events = 40001
    /\ result.value.last_week.total_events = 40000
    /\ result.value.comparison =
           [events_change |-> [change_percent |-> 0, direction |-> "stable"],
            failures_change |-> [change_percent |-> 0 - 50000, direction |-> "down"],
            success_rate_change |-> [change_percent |-> 10, direction |-> "up"]]

\* 60 events against 40 give {50.0, 'up'}.
C11_WitnessUp ==
    /\ WeekReturned
    /\ result.value.current_week.total_events = 60
    /\ result.value.last_week.total_events = 40
    /\ result.value.comparison.events_change =
           [change_percent |-> 50000, direction |-> "up"]

\* C30: for each of the three changes of a get_week_over_week result the
\* direction is 'up' if and only if the reported change_percent is > 0,
\* 'down' if and only if it is < 0 and 'stable' if and only if it is 0; with
\* previous = 0 and a current value that is not negative it is never 'down'.
C30_DirectionIsSign ==
    WeekReturned =>
        \A t \in Compared :
            /\ t[3].direction \in {"up", "down", "stable"}
            /\ t[3].direction = "up" <=> t[3].change_percent > 0
            /\ t[3].direction = "down" <=> t[3].change_percent < 0
            /\ t[3].direction = "stable" <=> t[3].change_percent = 0
            /\ (t[2] = 0 /\ t[1] >= 0) => t[3].direction # "down"

\* One result with the three directions, the change marked 'up' being of a
\* hundredth of a per cent.
C30_Witness ==
    /\ WeekReturned
    /\ {t[3].direction : t \in Compared} = {"up", "down", "stable"}
    /\ \E t \in Compared : t[3].direction = "up" /\ t[3].change_percent = 10
    /\ \E t \in Compared : t[3].direction = "down" /\ t[3].change_percent < 0

\* A previous week without events against a current week with events: 'up'.
C30_WitnessFromZero ==
    /\ WeekReturned
    /\ \E t \in Compared : t[2] = 0 /\ t[1] > 0 /\ t[3].direction = "up"

\* The entries of a bucket whose file loads, and a stored field of each.
Loaded(bucket) == SelectSeq(bucket, LoadsSuccessfully)

BucketField(bucket, key) ==
    [k \in DOMAIN bucket |->
        Get(SummaryFields(ContentOf(last.dir, bucket[k][2])), key, 0)]

\* m is the aggregate of bucket: sums of the three counts and the rounded mean
\* of the stored rates over the entries that load.
IsAggregateOf(m, bucket) ==
    LET loaded == Loaded(bucket)
    IN  /\ m.total_events = SumSeq(BucketField(loaded, "total_events"))
        /\ m.failed_logins = SumSeq(BucketField(loaded, "failed_logins"))
        /\ m.successful_logins = SumSeq(BucketField(loaded, "successful_logins"))
        /\ loaded # <<>> =>
               IsRounded2(m.avg_success_rate,
                          SumSeq(BucketField(loaded, "login_success_rate")),
                          1000 * Len(loaded))

\* C12: for each week bucket, total_events, failed_logins and
\* successful_logins are the sums of those fields over the bucket's snapshots
\* that loaded, and avg_success_rate is the mean, rounded to 2 decimals, of
\* their stored login_success_rate values, not a ratio of the summed totals.
C12_WeekAggregates ==
    WeekReturned =>
        /\ IsAggregateOf(result.value.current_week, last.current_week_files)
        /\ IsAggregateOf(result.value.last_week, last.last_week_files)

\* A current week of two snapshots (40 and 60 events; 35 and 40 successes;
\* stored rates 87.456 and 66.67) and a file that does not load: the mean of
\* the stored rates is 77.06 where the summed totals would give 75.0.
C12_Witness ==
    /\ WeekReturned
    /\ Len(last.current_week_files) = 3
    /\ Len(Loaded(last.current_week_files)) = 2
    /\ result.value.current_week =
           [total_events |-> 100, failed_logins |-> 25, successful_logins |-> 75,
            avg_success_rate |-> 77060]

ZeroAggregate ==
    [total_events |-> 0, failed_logins |-> 0, successful_logins |-> 0,
     avg_success_rate |-> 0]

NoChange == [change_percent |-> 0, direction |-> "stable"]

\* _load_analysis gives None for every entry of the bucket (vacuous when the
\* bucket is empty).
NoneLoads(bucket) ==
    \A k \in DOMAIN bucket :
        \/ bucket[k][2] \notin Names(last.dir)
        \/ ContentOf(last.dir, bucket[k][2]).kind \in {"unreadable", "malformed"}

\* C13: a bucket with no snapshots, or with snapshots none of which loads,
\* has all four aggregates equal to 0; with both buckets such, the call
\* completes normally and every entry of 'comparison' is {0, 'stable'}.
C13_EmptyBuckets ==
    WeekCalled =>
        /\ (WeekReturned /\ NoneLoads(last.current_week_files)) =>
               result.value.current_week = ZeroAggregate
        /\ (WeekReturned /\ NoneLoads(last.last_week_files)) =>
               result.value.last_week = ZeroAggregate
        /\ (NoneLoads(last.current_week_files) /\ NoneLoads(last.last_week_files)) =>
               /\ WeekReturned
               /\ result.value.comparison =
                      [events_change |-> NoChange, failures_change |-> NoChange,
                       success_rate_change |-> NoChange]

\* A call whose previous week is empty and whose current week holds only
\* files that do not load.
C13_Witness ==
    /\ WeekReturned
    /\ last.last_week_files = <<>>
    /\ Len(last.current_week_files) >= 2
    /\ NoneLoads(last.current_week_files)
    /\ result.value.current_week = ZeroAggregate
    /\ result.value.comparison.events_change = NoChange

\* A call on an empty catalog.
C13_WitnessEmptyCatalog ==
    /\ WeekReturned
    /\ analysis_files = <<>>
    /\ result.value.comparison.success_rate_change = NoChange

----------------------------------------------------------------------------
(* Properties of failure handling *)

QueryOps == TrendOps \cup {"get_week_over_week"}

\* C6: no failure inside the core reaches the caller: construction and every
\* query return a result, whatever the directory holds.
C6_NeverRaises == result.status # "raised"

\* C7: _load_analysis gives None, and does not raise, whenever the file cannot
\* be opened or read or its content is not valid JSON, and gives the
\* deserialized content unchanged otherwise.
C7_LoadFailureIsNone ==
    last.op \in QueryOps =>
        \A k \in DOMAIN last.loads :
            LET path == last.loads[k][1]
                outcome == last.loads[k][2]
            IN  IF \/ path \notin Names(last.dir)
                   \/ ContentOf(last.dir, path).kind \in
                          {"unreadable", "malformed", "undecodable"}
                THEN outcome.tag = "none"
                ELSE outcome.tag = "value"
                     /\ outcome.value = ContentOf(last.dir, path)

\* The file of catalog entry e is a well-formed snapshot.
WellFormed(e) ==
    /\ e[2] \in Names(last.dir)
    /\ ContentOf(last.dir, e[2]).kind = "object"
    /\ ContentOf(last.dir, e[2]).summary.t # "other"

\* The file of catalog entry e cannot be loaded.
LoadFails(e) ==
    \/ e[2] \notin Names(last.dir)
    \/ ContentOf(last.dir, e[2]).kind \in {"unreadable", "malformed", "undecodable"}

\* C8: in get_trend_data a qualifying entry whose load fails is skipped and
\* every other qualifying entry is still processed: the series holds exactly
\* the qualifying entries that loaded, in catalog order.
C8_FailedLoadsSkipped ==
    (/\ last.op \in TrendOps
     /\ \A i \in AtOrAfterCutoff :
            LoadFails(analysis_files[i]) \/ WellFormed(analysis_files[i])) =>
        /\ result.status = "returned"
        /\ LET kept == SelectSeq([i \in 1..Len(analysis_files) |-> i],
                                 LAMBDA i : i \in AtOrAfterCutoff
                                            /\ WellFormed(analysis_files[i]))
           IN  Series(result.value) =
                   [k \in 1..Len(kept) |-> analysis_files[kept[k]][1]]

----------------------------------------------------------------------------
(* Properties of the Snapshot Store *)

Constructing == last.op = "__init__"

\* Position of a name in a sequence of distinct names.
PositionIn(names, name) == CHOOSE k \in DOMAIN names : names[k] = name

\* C14: the catalog is sorted ascending by timestamp in every state, whatever
\* the files and the order of the scan, and right after construction entries
\* with equal timestamps stand in the order in which the scan gave them.
C14_CatalogSorted ==
    /\ \A i, j \in DOMAIN analysis_files :
           i < j => analysis_files[i][1] <= analysis_files[j][1]
    /\ Constructing =>
           \A i, j \in DOMAIN analysis_files :
               (i < j /\ analysis_files[i][1] = analysis_files[j][1]) =>
                   PositionIn(last.ties, analysis_files[i][2])
                       < PositionIn(last.ties, analysis_files[j][2])

\* A catalog of three entries, the last two with one timestamp, built from a
\* scan that gave the oldest file last.
C14_Witness ==
    /\ Constructing
    /\ result.status = "returned"
    /\ Len(analysis_files) = 3
    /\ analysis_files[1][1] < analysis_files[2][1]
    /\ analysis_files[2][1] = analysis_files[3][1]
    /\ analysis_files[2][2].alt > analysis_files[3][2].alt
    /\ last.ties = <<analysis_files[2][2], analysis_files[3][2]>>

\* The names in the directory of the last construction that strptime accepts.
ParseableNames == {n \in Names(last.dir) : n.parses}

\* C17: construction leaves out every file whose name does not parse and goes
\* on with the scan: the catalog holds exactly one entry per file with a
\* parseable name, and construction returns.
C17_UnparseableExcluded ==
    Constructing =>
        /\ result.status # "raised"
        /\ {analysis_files[i][2] : i \in DOMAIN analysis_files} = ParseableNames
        /\ Len(analysis_files) = Cardinality(ParseableNames)
        /\ \A i \in DOMAIN analysis_files :
               analysis_files[i][1] = analysis_files[i][2].ts

\* A construction on a directory of one name that does not parse and two
\* that do.
C17_Witness ==
    /\ Constructing
    /\ result.status = "returned"
    /\ Cardinality(Names(last.dir) \ ParseableNames) = 1
    /\ Len(analysis_files) = 2

\* A step in which a query was called (a call that gives what the call before
\* it gave, from the same locals, shows as no step at all).
QueryStep == last'.op \in QueryOps /\ <<last, result>>' # <<last, result>>

\* C15: no call of get_trend_data, get_7day_trends, get_30day_trends or
\* get_week_over_week changes the catalog or the directory, also when loads
\* fail or the window is empty.
C15_QueriesDoNotMutate ==
    [][QueryStep => (analysis_files' = analysis_files /\ dir' = dir)]_vars

\* A query on a catalog of two or more entries in which a load failed.
C15_Witness ==
    /\ last.op \in QueryOps
    /\ result.status = "returned"
    /\ Len(analysis_files) >= 2
    /\ \E k \in DOMAIN last.loads : last.loads[k][2].tag = "none"

\* A query whose window was empty on a catalog that is not.
C15_WitnessEmptyWindow ==
    /\ TrendReturned
    /\ analysis_files # <<>>
    /\ last.relevant = <<>>

CatalogPaths == {analysis_files[i][2] : i \in DOMAIN analysis_files}

\* C16: the catalog is built at construction and never refreshed: a file
\* written to or deleted from the directory leaves the catalog as it is, the
\* catalog changes only when an analyzer is constructed, which scans the
\* directory as it then is, and a series holds only snapshots that are in
\* the catalog and whose file is still there.
C16_BuiltOnce ==
    [][/\ dir' # dir => UNCHANGED <<analysis_files, result, last>>
       /\ analysis_files' # analysis_files =>
              /\ last'.op = "__init__"
              /\ last'.dir = dir
              /\ CatalogPaths' = {n \in Names(dir) : n.parses}
       /\ (QueryStep /\ TrendReturned') =>
              \A k \in DOMAIN Series(result'.value) :
                  \E i \in DOMAIN analysis_files :
                      /\ analysis_files[i][1] = Series(result'.value)[k]
                      /\ analysis_files[i][2] \in Names(dir)]_vars

\* A call made after a catalogued file was deleted and a snapshot inside the
\* window was written: the series holds neither.
C16_Witness ==
    /\ TrendReturned
    /\ last.dir = dir
    /\ \E i \in DOMAIN last.relevant :
           analysis_files[last.relevant[i]][2] \notin Names(dir)
    /\ \E f \in dir :
           /\ f.name.parses
           /\ f.name \notin CatalogPaths
           /\ f.content.kind = "object"
           /\ f.name.ts >= clock - last.hours
    /\ result.value.timestamps = <<>>

----------------------------------------------------------------------------
(* The presets *)

\* The last call returned the window of last.hours hours: the result for an
\* empty selection, or else the timestamps and the stored fields of the
\* selected snapshots that loaded (the rate rounded), with their summary.
IsWindowResult ==
    /\ result.status = "returned"
    /\ LET v == result.value
       IN  IF AtOrAfterCutoff = {}
           THEN v = [trend_type |-> <<"last_", last.hours, "h">>,
                     data_points |-> <<>>,
                     summary |-> [key \in MetricKeys |-> <<>>]]
           ELSE /\ DOMAIN v = {"trend_type", "timestamps", "data_points", "summary"}
                /\ v.trend_type = <<"last_", last.hours, "h">>
                /\ v.timestamps =
                       [k \in 1..Len(Expected) |-> analysis_files[Expected[k]][1]]
                /\ DOMAIN v.data_points = MetricKeys
                /\ \A key \in MetricKeys \ {"login_success_rate"} :
                       v.data_points[key] =
                           [k \in 1..Len(Expected) |-> StoredField(Expected[k], key)]
                /\ Len(v.data_points.login_success_rate) = Len(Expected)
                /\ \A k \in 1..Len(Expected) :
                       IsRounded2(v.data_points.login_success_rate[k],
                                  StoredField(Expected[k], "login_success_rate"), 1000)
                /\ IsSummaryOfLoaded(v.summary)

\* C18: get_7day_trends() returns what get_trend_data(168) returns and
\* get_30day_trends() what get_trend_data(720) returns: each of the three
\* gives the one result the catalog, the file contents, the clock and the
\* hours determine.
C18_PresetsDelegate ==
    /\ last.op = "get_7day_trends" => (last.hours = Hours7Day /\ IsWindowResult)
    /\ last.op = "get_30day_trends" => (last.hours = Hours30Day /\ IsWindowResult)
    /\ last.op = "get_trend_data" => IsWindowResult

\* A call of get_7day_trends on a catalog with a snapshot inside the 7 days
\* and one inside the 30 days only.
C18_Witness ==
    /\ last.op = "get_7day_trends"
    /\ result.status = "returned"
    /\ Len(Series(result.value)) = 1
    /\ \E i \in DOMAIN analysis_files :
           /\ analysis_files[i][1] < last.reads[i] - Hours7Day
           /\ analysis_files[i][1] >= last.reads[i] - Hours30Day
           /\ LoadsSuccessfully(analysis_files[i])

\* A call of get_30day_trends that returned both.
C18_Witness30 ==
    /\ last.op = "get_30day_trends"
    /\ result.status = "returned"
    /\ Len(Series(result.value)) = 2
    /\ \E i \in DOMAIN analysis_files :
           analysis_files[i][1] < last.reads[i] - Hours7Day

----------------------------------------------------------------------------
(* Properties of the dashboard's custom-trends endpoint *)

CustomCalled == last.op = "get_custom_trends"

\* The series the analyzer of the request has to give: the entries of its
\* catalog at or after the cutoff whose file loads.
CustomExpected ==
    LET files == last.files
        idx == SelectSeq([i \in 1..Len(files) |-> i],
                         LAMBDA i : /\ files[i][1] >= last.reads[i] - last.hours
                                    /\ LoadsSuccessfully(files[i]))
    IN  [k \in 1..Len(idx) |-> files[idx[k]][1]]

\* C19: the endpoint answers every hours value outside [1, 8760] with a 400,
\* without constructing an analyzer, and never with a 500; and every value
\* inside with a 200 that carries get_trend_data(hours) of an analyzer
\* constructed on the directory as it is.
C19_CustomTrendsBoundary ==
    CustomCalled =>
        IF last.hours < MinCustomHours \/ last.hours > MaxCustomHours
        THEN /\ result.value.code = HttpBadRequest
             /\ ~last.constructed
        ELSE /\ result.value.code = HttpOk
             /\ last.constructed
             /\ {last.files[i][2] : i \in DOMAIN last.files} =
                    {n \in Names(last.dir) : n.parses}
             /\ result.value.body.trend_type = <<"last_", last.hours, "h">>
             /\ Series(result.value.body) = CustomExpected

----------------------------------------------------------------------------
(* Properties of the Log Analyzer *)

\* The events that are failed authentications, stated on the event itself:
\* its type has the word 'authentication', in whatever case, and its outcome
\* is FAILURE.
FailedAuthentications ==
    {i \in DOMAIN logs :
        /\ \E k \in DOMAIN logs[i].eventType : logs[i].eventType[k].text = "authentication"
        /\ logs[i].outcome.result = "FAILURE"}

\* The user and the address an event is counted for: 'Unknown' when the event
\* names none.
CountedUser(i) == IF "actor" \in DOMAIN logs[i] THEN logs[i].actor.alternateId ELSE "Unknown"
CountedIp(i) == IF "client" \in DOMAIN logs[i] THEN logs[i].client.ipAddress ELSE "Unknown"

FailuresOfUser(u) == Cardinality({i \in FailedAuthentications : CountedUser(i) = u})
FailuresOfIp(a) == Cardinality({i \in FailedAuthentications : CountedIp(i) = a})

AllUsers == {CountedUser(i) : i \in DOMAIN logs} \cup {"Unknown", "nobody@example.com"}
AllIps == {CountedIp(i) : i \in DOMAIN logs} \cup {"Unknown", "10.0.0.1"}

\* C20: analyze_failed_logins lists a user, and an address, if and only if
\* the number of failed authentications of the input for it is at least
\* failed_login_threshold (5), with failure_count that number; an empty input
\* and one below the threshold give two empty maps.
C20_FailedLoginThreshold ==
    last.op = "analyze_failed_logins" =>
        LET users == result.value.suspicious_users
            ips == result.value.suspicious_ips
        IN  /\ DOMAIN result.value = {"suspicious_users", "suspicious_ips"}
            /\ DOMAIN users \subseteq AllUsers
            /\ DOMAIN ips \subseteq AllIps
            /\ \A u \in AllUsers :
                   /\ u \in DOMAIN users <=> FailuresOfUser(u) >= FailedLoginThreshold
                   /\ u \in DOMAIN users => users[u].failure_count = FailuresOfUser(u)
            /\ \A a \in AllIps :
                   /\ a \in DOMAIN ips <=> FailuresOfIp(a) >= FailedLoginThreshold
                   /\ a \in DOMAIN ips => ips[a].failure_count = FailuresOfIp(a)
            /\ Cardinality(FailedAuthentications) < FailedLoginThreshold =>
                   (users = <<>> /\ ips = <<>>)

\* Five failed authentications from one address, three of one user and two
\* of another: the address is listed with count 5 and no user is.
C20_Witness ==
    /\ last.op = "analyze_failed_logins"
    /\ Len(logs) = FailedLoginThreshold
    /\ DOMAIN result.value.suspicious_users = {}
    /\ DOMAIN result.value.suspicious_ips = {"192.168.1.1"}
    /\ result.value.suspicious_ips["192.168.1.1"].failure_count = FailedLoginThreshold
    /\ FailuresOfUser("user@example.com") = 3

\* Five failed authentications of one user: the user is listed with count 5.
C20_WitnessUser ==
    /\ last.op = "analyze_failed_logins"
    /\ DOMAIN result.value.suspicious_users = {"user@example.com"}
    /\ result.value.suspicious_users["user@example.com"].failure_count = 5
    /\ result.value.suspicious_users["user@example.com"].risk_level = "MEDIUM"

\* An empty input.
C20_WitnessEmpty ==
    /\ last.op = "analyze_failed_logins"
    /\ logs = <<>>
    /\ result.value = [suspicious_users |-> <<>>, suspicious_ips |-> <<>>]

----------------------------------------------------------------------------
(* Properties of the risk level, the summary and the MFA statistics *)

\* The levels, from the lowest.
Levels == <<"LOW", "MEDIUM", "HIGH", "CRITICAL">>

Rank(level) == CHOOSE k \in DOMAIN Levels : Levels[k] = level

\* The levels whose configured threshold is at most n.
LevelsReached(n) ==
    {"MEDIUM" : x \in {0} \cap {IF thresholds.risk_level_medium <= n THEN 0 ELSE 1}}
    \cup {"HIGH" : x \in {0} \cap {IF thresholds.risk_level_high <= n THEN 0 ELSE 1}}
    \cup {"CRITICAL" : x \in {0} \cap {IF thresholds.risk_level_critical <= n THEN 0 ELSE 1}}

RiskCalled == last.op = "_calculate_risk_level"

\* C21: _calculate_risk_level(n) gives the highest of CRITICAL, HIGH and
\* MEDIUM whose threshold is <= n, and LOW when n is below all three; a call
\* with a count at least that of the call before gives a level at least as
\* high; 2, 5, 15 and 25 give LOW, MEDIUM, HIGH and CRITICAL.
C21_RiskLevel ==
    [][RiskCalled' =>
          LET n == last'.failure_count
              level == result'.value
          IN  /\ level \in {Levels[k] : k \in DOMAIN Levels}
              /\ LevelsReached(n) = {} => level = "LOW"
              /\ LevelsReached(n) # {} =>
                     /\ level \in LevelsReached(n)
                     /\ \A other \in LevelsReached(n) : Rank(other) <= Rank(level)
              /\ (RiskCalled /\ last.failure_count <= n) =>
                     Rank(result.value) <= Rank(level)
              /\ n = 2 => level = "LOW"
              /\ n = 5 => level = "MEDIUM"
              /\ n = 15 => level = "HIGH"
              /\ n = 25 => level = "CRITICAL"]_vars

\* A count that is exactly the threshold of HIGH.
C21_Witness ==
    /\ RiskCalled
    /\ last.failure_count = thresholds.risk_level_high
    /\ result.value = "HIGH"

\* The authentication events of the input, stated on the event itself: its
\* type has the word 'authentication', in whatever case.
Authentications ==
    {i \in DOMAIN logs :
        \E k \in DOMAIN logs[i].eventType : logs[i].eventType[k].text = "authentication"}

WithOutcome(events, outcome) == {i \in events : logs[i].outcome.result = outcome}

\* The distinct non-empty users and addresses of the authentication events.
UsersNamed ==
    {logs[i].actor.alternateId : i \in {j \in Authentications : "actor" \in DOMAIN logs[j]}}
        \ {""}
IpsNamed ==
    {logs[i].client.ipAddress : i \in {j \in Authentications : "client" \in DOMAIN logs[j]}}
        \ {""}

\* x, in thousandths, is n / d * 100 rounded to two decimals.
IsRate(x, n, d) ==
    /\ x % 10 = 0
    /\ 2 * d * (x \div 10) - 20000 * n \in (0 - d)..d

SummaryCalled == last.op = "generate_summary"

\* C22: generate_summary counts all events, the authentication events, those
\* of them that succeeded and failed, the distinct non-empty users and
\* addresses of the authentication events, and gives successful /
\* authentications * 100 rounded to 2 decimals, or 0 without authentications.
C22_SummaryCounts ==
    SummaryCalled =>
        LET s == result.value
        IN  /\ s.total_events = Len(logs)
            /\ s.total_authentications = Cardinality(Authentications)
            /\ s.successful_logins = Cardinality(WithOutcome(Authentications, "SUCCESS"))
            /\ s.failed_logins = Cardinality(WithOutcome(Authentications, "FAILURE"))
            /\ s.successful_logins + s.failed_logins <= s.total_authentications
            /\ s.total_authentications <= s.total_events
            /\ s.unique_users = Cardinality(UsersNamed)
            /\ s.unique_ips = Cardinality(IpsNamed)
            /\ s.total_authentications = 0 => s.login_success_rate = 0
            /\ s.total_authentications > 0 =>
                   IsRate(s.login_success_rate, s.successful_logins,
                          s.total_authentications)

\* Two of three authentication events succeeded, one of them of an empty
\* user, beside an event that is no authentication: 66.67 per cent, one user.
C22_Witness ==
    /\ SummaryCalled
    /\ result.value.total_events = 4
    /\ result.value.total_authentications = 3
    /\ result.value.successful_logins = 2
    /\ result.value.failed_logins = 0
    /\ result.value.unique_users = 1
    /\ result.value.unique_ips = 2
    /\ result.value.login_success_rate = 66670
    /\ \E i \in Authentications : logs[i].actor.alternateId = ""

\* No authentication event at all.
C22_WitnessNone ==
    /\ SummaryCalled
    /\ Len(logs) > 0
    /\ result.value.total_authentications = 0
    /\ result.value.login_success_rate = 0

\* The MFA events of the input, stated on the event itself.
Challenges ==
    {i \in DOMAIN logs : \E k \in DOMAIN logs[i].eventType : logs[i].eventType[k].text = "mfa"}

MfaCalled == last.op = "analyze_mfa_events"

RECURSIVE SumOver(_, _)
SumOver(f, keys) ==
    IF keys = {} THEN 0
    ELSE LET k == CHOOSE x \in keys : TRUE IN f[k] + SumOver(f, keys \ {k})

\* C23: analyze_mfa_events counts in total_challenges exactly the MFA events;
\* successful + failed + denied <= total_challenges; success_rate is
\* successful / total_challenges * 100 rounded to 2 decimals, 0 without MFA
\* events; the failure counts of the users sum to failed + denied; a user is
\* in suspicious_users if and only if its failure count is at least
\* mfa_failure_threshold (3), with that count.
C23_MfaStatistics ==
    MfaCalled =>
        LET s == result.value
            counts == s.users_with_failures
        IN  /\ s.total_challenges = Cardinality(Challenges)
            /\ s.successful + s.failed + s.denied <= s.total_challenges
            /\ s.successful = Cardinality(WithOutcome(Challenges, "SUCCESS"))
            /\ s.total_challenges = 0 => s.success_rate = 0
            /\ s.total_challenges > 0 =>
                   IsRate(s.success_rate, s.successful, s.total_challenges)
            /\ SumOver(counts, DOMAIN counts) = s.failed + s.denied
            /\ DOMAIN s.suspicious_users =
                   {u \in DOMAIN counts : counts[u] >= MfaFailureThreshold}
            /\ \A u \in DOMAIN s.suspicious_users : s.suspicious_users[u] = counts[u]

\* Two failed and one denied challenge of one user, one failed challenge of
\* no named user and one undecided challenge: the user is suspicious with
\* count 3, 'Unknown' is not.
C23_Witness ==
    /\ MfaCalled
    /\ result.value.total_challenges = 5
    /\ result.value.successful = 0
    /\ result.value.failed = 3
    /\ result.value.denied = 1
    /\ DOMAIN result.value.suspicious_users = {"user@example.com"}
    /\ result.value.suspicious_users["user@example.com"] = 3
    /\ result.value.users_with_failures["Unknown"] = 1

----------------------------------------------------------------------------
(* Properties of the Okta connector *)

\* Okta answered 200 with a JSON array of events.
AnsweredEvents(x) ==
    x.kind = "response" /\ x.status_code = HttpOk /\ x.body.json = "array"

\* The request failed: another status, a timeout, a request exception, or a
\* body that is no JSON.
RequestFailed(x) ==
    \/ x.kind \in {"Timeout", "ConnectionError"}
    \/ x.kind = "response" /\ x.status_code # HttpOk
    \/ x.kind = "response" /\ x.body.json = "none"

\* C24: get_logs returns the decoded list of events on HTTP 200 and the empty
\* list on another status, a timeout, a request exception or an undecodable
\* body; test_connection returns True on HTTP 200 and False otherwise;
\* neither raises.
C24_FailuresAbsorbed ==
    /\ last.op = "get_logs" =>
           /\ result.status = "returned"
           /\ AnsweredEvents(last.exchange) => result.value = last.exchange.body.items
           /\ RequestFailed(last.exchange) => result.value = <<>>
    /\ last.op = "test_connection" =>
           /\ result.status = "returned"
           /\ result.value =
                  (last.exchange.kind = "response" /\ last.exchange.status_code = HttpOk)

\* A body that is no JSON, answered with 200, gives the empty list.
C24_Witness ==
    /\ last.op = "get_logs"
    /\ last.exchange = Answer(HttpOk, BodyNotJson)
    /\ result = Returned(<<>>)

\* Two events, answered with 200, are returned as they are.
C24_WitnessEvents ==
    /\ last.op = "get_logs"
    /\ AnsweredEvents(last.exchange)
    /\ Len(result.value) = 2
    /\ result.value[1] # result.value[2]

\* A timeout makes test_connection False.
C24_WitnessTimeout ==
    /\ last.op = "test_connection"
    /\ last.exchange = Failure("Timeout")
    /\ result = Returned(FALSE)

\* The events get_logs returns for the exchange of the last call.
Fetched == IF AnsweredEvents(last.exchange) THEN last.exchange.body.items ELSE <<>>

\* The positions of the fetched events whose type, in lower case, has one of
\* the keywords, stated on the event itself.
AuthPositions ==
    {i \in DOMAIN Fetched :
        /\ "eventType" \in DOMAIN Fetched[i]
        /\ \E k \in DOMAIN Fetched[i].eventType :
               Fetched[i].eventType[k].text \in
                   {"authentication", "login", "session", "mfa", "verify"}}

\* The n-th of a set of positions, from the lowest.
NthOf(positions, n) ==
    CHOOSE i \in positions : Cardinality({j \in positions : j < i}) = n - 1

\* C25: get_authentication_logs returns the fetched events whose lower-cased
\* type has a keyword, in the order of the fetch, and nothing else; an empty
\* fetch gives the empty list.
C25_AuthenticationFilter ==
    (/\ last.op = "get_authentication_logs"
     /\ (AnsweredEvents(last.exchange) \/ RequestFailed(last.exchange))) =>
        /\ result.status = "returned"
        /\ Len(result.value) = Cardinality(AuthPositions)
        /\ \A n \in DOMAIN result.value :
               result.value[n] = Fetched[NthOf(AuthPositions, n)]
        /\ Fetched = <<>> => result.value = <<>>

\* Four fetched events of which the second has no keyword and the third is
\* spelled with a capital: three are returned, in the order of the fetch.
C25_Witness ==
    /\ last.op = "get_authentication_logs"
    /\ Len(Fetched) = 4
    /\ AuthPositions = {1, 3, 4}
    /\ Fetched[3].eventType[3] = Capitalised("login")
    /\ "eventType" \notin DOMAIN Fetched[4] \/ Fetched[1] # Fetched[4]
    /\ result.value = <<Fetched[1], Fetched[3], Fetched[4]>>

\* An empty fetch.
C25_WitnessEmpty ==
    /\ last.op = "get_authentication_logs"
    /\ last.exchange = Answer(HttpOk, BodyArray(<<>>))
    /\ result = Returned(<<>>)

----------------------------------------------------------------------------
(* Properties of the collection run *)

MainCalled == last.op = "main"

\* The files of the directory of main.py that the run wrote or changed.
Written == {f \in src_dir : f \notin last.before}

Touched == Written \cup {f \in last.before : f \notin src_dir}

\* The run ended early or a step raised.
EndedEarly == last.ended \in {"credentials", "connection", "no_logs", "raised"}

\* C27: a run of main() writes a snapshot file only after the connection test
\* succeeded, the fetch gave a non-empty list and the analysis completed, in
\* this order; without credentials, with a failed connection test, without
\* logs or when a step raises it ends without writing or changing a snapshot
\* file; it never raises and writes at most one file.
C27_SnapshotOnlyOnSuccess ==
    MainCalled =>
        /\ Touched # {} =>
               /\ Len(last.trace) >= 4
               /\ SubSeq(last.trace, 1, 4) = <<"connect", "test_connection", "fetch", "analysis">>
        /\ EndedEarly => Touched = {}
        /\ result.status = "returned"
        /\ Cardinality(Written) <= 1

FreshCalled == last.op = "fetch_fresh_data"

\* The snapshot the run of main.py saved.
SavedByRun == {f \in src_dir : f \notin last.before /\ f.content.kind = "object"}

\* C26: after a run of main.py with return code 0 that saved a snapshot, the
\* file it wrote is among the files get_latest_analysis scans, and the 'data'
\* of the answer is the analysis of that file.
C26_FreshDataIsSavedRun ==
    (FreshCalled /\ last.returncode = 0 /\ last.ended = "saved") =>
        \A f \in SavedByRun :
            /\ f.name \in Names(last.scanned)
            /\ result.value.code = HttpOk
            /\ result.value.body.data # <<>>
            /\ result.value.body.data.summary = f.content.summary.v

====
